---------------------------- MODULE Spec2Model ----------------------------
(***************************************************************************)
(* Model of sigviewer: the SigMF ingestion pipeline and the application    *)
(* that loads, filters and shows the table.                                *)
(*   parser/sigmf/datatypes.rs  SigMFDataType                              *)
(*   parser/sigmf/parser.rs     SigMFParser (from_meta_file,               *)
(*                              to_summary_rows)                           *)
(*   parser/sigmf/dataset.rs    SigMFDataset::from_directory               *)
(*   gui_main.rs                SigViewerApp (load_dataset, apply_filters, *)
(*                              the frames of update)                      *)
(*                                                                         *)
(* Spec is from_directory on one directory, GuiSpec the application frame  *)
(* by frame, FilterSpec and ForeignSpec one call of apply_filters.         *)
(*                                                                         *)
(* Conventions.  Option<T> is a sequence of length at most one: None is    *)
(* <<>> and Some(x) is <<x>>.  Result<T> is a record [ok, val, err] whose  *)
(* val is <<x>> for Ok(x).  f64 values are integers.  A path is the pair   *)
(* <<stem, extension>>.  A DataFrame is the sequence of its rows, a row a  *)
(* record with one field per column.                                       *)
(***************************************************************************)
EXTENDS Integers, Sequences, FiniteSets, TLC

VARIABLES
    walk,            \* the entries WalkDir yields for the directory, in discovery order
    data_files,      \* the file system: stem -> the companion .sigmf-data file
    pc,              \* position of from_directory: "walk", "exists", "rows", "done"
    idx,             \* number of walk entries consumed so far
    parser,          \* Option<SigMFParser>: the parser of the file being processed
    exists_seen,     \* to_summary_rows: the outcome of data_file_path.exists()
    all_rows,        \* from_directory: Vec<DataFrame>
    processed_count, \* from_directory: processed_count
    error_count,     \* from_directory: error_count
    stderr,          \* the per-file failures reported with eprintln!
    result,          \* Option<Result<DataFrame>>: what from_directory returned
    app,             \* gui_main.rs: the SigViewerApp, a record of its fields
    event            \* gui_main.rs: the handler the last frame ran and the path it took

vars == <<walk, data_files, pc, idx, parser, exists_seen, all_rows,
          processed_count, error_count, stderr, result, app, event>>

-----------------------------------------------------------------------------
(* Bounds of the model *)

MaxAnns == 2

MaxFileSize == 9

MaxEntries == 3

-----------------------------------------------------------------------------
(* Option and Result *)

None == <<>>

Some(x) == <<x>>

is_some(o) == o # <<>>

\* Option::unwrap_or forgetting the default: an absent value stays absent
unwrap_or_null(o, d) == IF o = <<>> THEN <<>> ELSE o[1]

unwrap_or(o, d) == IF o = <<>> THEN d ELSE o[1]

Ok(x) == [ok |-> TRUE, val |-> <<x>>, err |-> [kind |-> "", detail |-> <<>>]]

Err(kind, detail) == [ok |-> FALSE, val |-> <<>>, err |-> [kind |-> kind, detail |-> detail]]

-----------------------------------------------------------------------------
(* datatypes.rs *)

\* from_string with the two variants exchanged
from_string_swapped(s) ==
    CASE s = "cf32_le" -> Ok("Ci16Le")
      [] s = "ci16_le" -> Ok("Cf32Le")
      [] OTHER -> Err("UnsupportedDatatype", <<s>>)

from_string(s) ==
    CASE s = "cf32_le" -> Ok("Cf32Le")
      [] s = "ci16_le" -> Ok("Ci16Le")
      [] OTHER -> Err("UnsupportedDatatype", <<s>>)

sample_size_bytes(data_type) ==
    CASE data_type = "Cf32Le" -> 8
      [] data_type = "Ci16Le" -> 4

-----------------------------------------------------------------------------
(* Paths and the file system *)

with_extension(path, ext) == <<path[1], ext>>

extension(path) == path[2]

file_name(path) == path

path_exists(fsys, path) ==
    /\ path[2] = "sigmf-data"
    /\ path[1] \in DOMAIN fsys
    /\ fsys[path[1]].exists

\* std::fs::metadata(path).len(): the size, or an io error when the file is gone
fs_metadata_len(fsys, path) ==
    IF path_exists(fsys, path) THEN Ok(fsys[path[1]].len)
    ELSE Err("io", <<>>)

-----------------------------------------------------------------------------
(* parser.rs: SigMFParser *)

\* Iterator::find: the first element of s among the positions hits (those that
\* satisfy the closure), as an Option
find(s, hits) ==
    IF hits = {} THEN None
    ELSE Some(s[CHOOSE i \in hits : \A j \in hits : i <= j])

\* Option::and_then(|x| x.field) for a field that is itself an Option
and_then(o, field) == IF o = <<>> THEN None ELSE o[1][field]

\* Option::map(|x| x.field)
map(o, field) == IF o = <<>> THEN None ELSE Some(o[1][field])

\* from_meta_file with the companion file checked before the datatype
from_meta_file_data_first(meta_path, file, fsys) ==
    LET data_file_path == with_extension(meta_path, "sigmf-data")
    IN IF ~file.read_ok THEN Err("io", <<>>)
       ELSE IF ~file.json_ok THEN Err("json", <<>>)
       ELSE IF ~path_exists(fsys, data_file_path)
            THEN Err("MissingDataFile", data_file_path)
       ELSE LET data_type == from_string(file.metadata.global.datatype)
            IN IF ~data_type.ok THEN data_type
               ELSE Ok([metadata |-> file.metadata,
                        data_type |-> data_type.val[1],
                        data_file_path |-> data_file_path])

\* from_meta_file: read_to_string?, serde_json::from_str?, from_string?, then the
\* companion file's existence check
from_meta_file(meta_path, file, fsys) ==
    IF ~file.read_ok THEN Err("io", <<>>)
    ELSE IF ~file.json_ok THEN Err("json", <<>>)
    ELSE LET metadata == file.metadata
             data_type == from_string(metadata.global.datatype)
         IN IF ~data_type.ok THEN data_type
            ELSE LET data_file_path == with_extension(meta_path, "sigmf-data")
                 IN IF ~path_exists(fsys, data_file_path)
                    THEN Err("MissingDataFile", data_file_path)
                    ELSE Ok([metadata |-> metadata,
                             data_type |-> data_type.val[1],
                             data_file_path |-> data_file_path])

is_ml_annotation(ann) ==
    \/ is_some(ann.sig_center_freq)
    \/ is_some(ann.ask_prob)
    \/ is_some(ann.psk_prob)
    \/ is_some(ann.custom_classifier_probs)

\* The lookup taking the last entry of the class name instead of the first
get_custom_classifier_prob_last_match(ml_annotation, class_name) ==
    IF ml_annotation = None THEN None
    ELSE IF ml_annotation[1].custom_classifier_probs = None THEN None
    ELSE LET probs == ml_annotation[1].custom_classifier_probs[1]
             hits == {i \in 1..Len(probs) : probs[i].class_name = class_name}
         IN IF hits = {} THEN None
            ELSE Some(probs[CHOOSE i \in hits : \A j \in hits : i >= j].class_prob)

get_custom_classifier_prob_for_annotation(ml_annotation, class_name) ==
    IF ml_annotation = None THEN None
    ELSE IF ml_annotation[1].custom_classifier_probs = None THEN None
    ELSE LET probs == ml_annotation[1].custom_classifier_probs[1]
             c == find(probs, {i \in 1..Len(probs) : probs[i].class_name = class_name})
         IN map(c, "class_prob")

\* Vec::last in the place of Vec::first
last_annotation(s) == IF s = <<>> THEN None ELSE Some(s[Len(s)])

\* Vec::first and slice::get as Options
first(s) == IF s = <<>> THEN None ELSE Some(s[1])

get(s, i) == IF i + 1 \in 1..Len(s) THEN Some(s[i + 1]) ELSE None

\* num_samples as f64 / sample_rate, kept as the exact quotient
f64_div(n, d) == [num |-> n, den |-> d]

\* The one-row DataFrame of create_single_row_dataframe (the df! macro is given
\* 40 columns of length one and cannot fail)
create_single_row_dataframe(metadata, meta_filename, data_filename, num_samples, file_size_bytes, global, capture_with_freq, capture_with_datetime, capture_with_ds_info, ml_annotation) ==
    << [meta_filename |-> meta_filename,
        data_filename |-> data_filename,
        num_samples |-> num_samples,
        file_size_bytes |-> file_size_bytes,
        duration_s |-> f64_div(num_samples, global.sample_rate),
        sample_rate_hz |-> global.sample_rate,
        datatype |-> global.datatype,
        sigmf_version |-> global.version,
        author |-> unwrap_or(global.author, ""),
        hardware |-> unwrap_or(global.hardware, ""),
        latitude |-> unwrap_or(get(unwrap_or(map(global.geolocation, "coordinates"),
                                             <<>>), 0), 0),
        longitude |-> unwrap_or(get(unwrap_or(map(global.geolocation, "coordinates"),
                                              <<>>), 1), 0),
        geo_type |-> unwrap_or(map(global.geolocation, "geo_type"), ""),
        center_freq_hz |-> unwrap_or(and_then(capture_with_freq,
                                              "frequency"), 0),
        capture_datetime |-> unwrap_or(and_then(capture_with_datetime,
                                                "timestamp"), ""),
        gain |-> unwrap_or(and_then(capture_with_ds_info, "gain"), 0),
        agc |-> unwrap_or(and_then(capture_with_ds_info, "agc"), FALSE),
        sequence_num |-> unwrap_or(and_then(capture_with_ds_info,
                                            "sequence_num"), 0),
        snr_db |-> unwrap_or(and_then(ml_annotation, "sig_snr"), 0),
        power_dbm |-> unwrap_or(and_then(ml_annotation, "sig_power_dbm"), 0),
        power_dbfs |-> unwrap_or(and_then(ml_annotation, "sig_power_dbfs"), 0),
        sig_bandwidth_hz |-> unwrap_or(and_then(ml_annotation,
                                                "sig_bandwidth"), 0),
        sig_center_freq_hz |-> unwrap_or(and_then(ml_annotation,
                                                  "sig_center_freq"), 0),
        ml_ask_prob |-> unwrap_or(and_then(ml_annotation, "ask_prob"), 0),
        ml_psk_prob |-> unwrap_or(and_then(ml_annotation, "psk_prob"), 0),
        ml_fsk_prob |-> unwrap_or(and_then(ml_annotation, "fsk_prob"), 0),
        ml_am_prob |-> unwrap_or(and_then(ml_annotation, "analog_am_prob"), 0),
        ml_fm_prob |-> unwrap_or(and_then(ml_annotation, "analog_fm_prob"), 0),
        ml_ook_prob |-> unwrap_or(and_then(ml_annotation, "ook_prob"), 0),
        ml_chirp_prob |-> unwrap_or(and_then(ml_annotation, "chirp_prob"), 0),
        ml_constellation_prob |-> unwrap_or(and_then(ml_annotation,
                                                     "constellation_prob"), 0),
        ml_css_prob |-> unwrap_or(and_then(ml_annotation, "css_prob"), 0),
        ml_wifi_prob |-> unwrap_or(
            get_custom_classifier_prob_for_annotation(ml_annotation, "wifi"), 0),
        ml_cell_prob |-> unwrap_or(
            get_custom_classifier_prob_for_annotation(ml_annotation, "cell"), 0),
        ml_radar_prob |-> unwrap_or(
            get_custom_classifier_prob_for_annotation(ml_annotation, "radar"), 0),
        ml_no_sig |-> unwrap_or(and_then(ml_annotation, "ml_no_sig"), FALSE),
        sig_uuid |-> unwrap_or(and_then(ml_annotation, "uuid"), ""),
        sdr_handle |-> unwrap_or(and_then(ml_annotation, "sdr_handle"), ""),
        freq_lower_edge_hz |-> unwrap_or(
            and_then(first(unwrap_or(metadata.annotations, <<>>)),
                     "freq_lower_edge"), 0),
        freq_upper_edge_hz |-> unwrap_or(
            and_then(first(unwrap_or(metadata.annotations, <<>>)),
                     "freq_upper_edge"), 0)] >>

\* DataFrame::vstack of two frames of the same schema
vstack(a, b) == a \o b

\* file_info with the sample count rounded up
file_info_ceil(self, exists, md) ==
    IF exists
    THEN IF ~md.ok THEN md
         ELSE LET file_size == md.val[1]
                  sample_size == sample_size_bytes(self.data_type)
              IN Ok(<<(file_size + sample_size - 1) \div sample_size, file_size>>)
    ELSE Ok(<<0, 0>>)

\* to_summary_rows, lines 70-78: (num_samples, file_size_bytes) as a Result;
\* exists is what data_file_path.exists() answered, md what fs::metadata
\* answers when it is called after that
file_info(self, exists, md) ==
    IF exists
    THEN IF ~md.ok THEN md
         ELSE LET file_size == md.val[1]
                  sample_size == sample_size_bytes(self.data_type)
                  num_samples == file_size \div sample_size
              IN Ok(<<num_samples, file_size>>)
    ELSE Ok(<<0, 0>>)

\* to_summary_rows, lines 89-91
ml_annotations_of(metadata) ==
    IF metadata.annotations = None THEN <<>>
    ELSE SelectSeq(metadata.annotations[1], is_ml_annotation)

\* to_summary_rows, lines 126-129: all_rows[0] stacked with the frames after it
RECURSIVE vstack_from(_, _, _)
vstack_from(acc, frames, i) ==
    IF i > Len(frames) THEN acc
    ELSE vstack_from(vstack(acc, frames[i]), frames, i + 1)

concat_rows(frames) == vstack_from(frames[1], frames, 2)

\* to_summary_rows searching the captures for the gain and skipping a capture
\* that has only the AGC flag
to_summary_rows_gain_scan(self, exists, md) ==
    LET metadata == self.metadata
        global == metadata.global
        data_filename == file_name(self.data_file_path)
        meta_filename == file_name(with_extension(self.data_file_path, "sigmf-meta"))
        info == file_info(self, exists, md)
    IN IF ~info.ok THEN info
       ELSE
       LET num_samples == info.val[1][1]
           file_size_bytes == info.val[1][2]
           captures == metadata.captures
           capture_with_freq ==
               find(captures, {i \in 1..Len(captures) : is_some(captures[i].frequency)})
           capture_with_datetime ==
               find(captures, {i \in 1..Len(captures) : is_some(captures[i].timestamp)})
           capture_with_ds_info ==
               find(captures, {i \in 1..Len(captures) : is_some(captures[i].gain)})
           ml_annotations == ml_annotations_of(metadata)
           row(ml_annotation) ==
               create_single_row_dataframe(metadata, meta_filename, data_filename,
                   num_samples, file_size_bytes, global, capture_with_freq,
                   capture_with_datetime, capture_with_ds_info, ml_annotation)
       IN IF ml_annotations = <<>> THEN Ok(row(None))
          ELSE LET frames == [i \in 1..Len(ml_annotations) |-> row(Some(ml_annotations[i]))]
               IN Ok(concat_rows(frames))

to_summary_rows(self, exists, md) ==
    LET metadata == self.metadata
        global == metadata.global
        data_filename == file_name(self.data_file_path)
        meta_filename == file_name(with_extension(self.data_file_path, "sigmf-meta"))
        info == file_info(self, exists, md)
    IN IF ~info.ok THEN info
       ELSE
       LET num_samples == info.val[1][1]
           file_size_bytes == info.val[1][2]
           captures == metadata.captures
           capture_with_freq ==
               find(captures, {i \in 1..Len(captures) : is_some(captures[i].frequency)})
           capture_with_datetime ==
               find(captures, {i \in 1..Len(captures) : is_some(captures[i].timestamp)})
           capture_with_ds_info ==
               find(captures, {i \in 1..Len(captures) :
                                 is_some(captures[i].gain) \/ is_some(captures[i].agc)})
           ml_annotations == ml_annotations_of(metadata)
           row(ml_annotation) ==
               create_single_row_dataframe(metadata, meta_filename, data_filename,
                   num_samples, file_size_bytes, global, capture_with_freq,
                   capture_with_datetime, capture_with_ds_info, ml_annotation)
       IN IF ml_annotations = <<>> THEN Ok(row(None))
          ELSE LET frames == [i \in 1..Len(ml_annotations) |-> row(Some(ml_annotations[i]))]
               IN Ok(concat_rows(frames))

-----------------------------------------------------------------------------
(* metadata.rs: the documents the model is run on *)

NoAnnotation ==
    [sample_start |-> 0, sample_count |-> 0,
     freq_lower_edge |-> None, freq_upper_edge |-> None,
     analog_am_prob |-> None, analog_fm_prob |-> None, ask_prob |-> None,
     fsk_prob |-> None, psk_prob |-> None, chirp_prob |-> None,
     constellation_prob |-> None, css_prob |-> None,
     custom_classifier_probs |-> None, ml_no_sig |-> None, ook_prob |-> None,
     sdr_handle |-> None, sig_bandwidth |-> None, sig_center_freq |-> None,
     sig_power_dbfs |-> None, sig_power_dbm |-> None, sig_snr |-> None,
     uuid |-> None]

\* An annotation with every field but the four ML markers set, values from k
Described(k) ==
    [NoAnnotation EXCEPT
        !.sample_start = k, !.sample_count = k + 1,
        !.freq_lower_edge = Some(10 * k + 1), !.freq_upper_edge = Some(10 * k + 2),
        !.analog_am_prob = Some(10 * k + 3), !.analog_fm_prob = Some(10 * k + 4),
        !.fsk_prob = Some(10 * k + 5), !.chirp_prob = Some(10 * k + 6),
        !.constellation_prob = Some(10 * k + 7), !.css_prob = Some(10 * k + 8),
        !.ml_no_sig = Some(TRUE), !.ook_prob = Some(10 * k + 9),
        !.sdr_handle = Some("sdr"), !.sig_bandwidth = Some(100 * k + 1),
        !.sig_power_dbfs = Some(100 * k + 2), !.sig_power_dbm = Some(100 * k + 3),
        !.sig_snr = Some(100 * k + 4), !.uuid = Some("uuid")]

ClassProb(name, prob) == [class_name |-> name, class_prob |-> prob]

AnnotationKinds ==
    { NoAnnotation,
      Described(1),
      [NoAnnotation EXCEPT !.freq_lower_edge = Some(21), !.freq_upper_edge = Some(22)],
      [Described(3) EXCEPT !.sig_center_freq = Some(35)],
      [NoAnnotation EXCEPT !.ask_prob = Some(41)],
      [NoAnnotation EXCEPT !.psk_prob = Some(51), !.sig_snr = Some(52),
                           !.uuid = Some("uuid5")],
      [Described(6) EXCEPT !.custom_classifier_probs = Some(<<>>)],
      [NoAnnotation EXCEPT !.custom_classifier_probs =
          Some(<<ClassProb("lora", 71), ClassProb("wifi", 72),
                 ClassProb("radar", 73), ClassProb("wifi", 74)>>),
          !.freq_lower_edge = Some(75)],
      [NoAnnotation EXCEPT !.custom_classifier_probs =
          Some(<<ClassProb("Cell", 81), ClassProb("cell", 82),
                 ClassProb("wifi", 83)>>),
          !.sig_snr = Some(84)] }

SeqsUpTo(S, n) == UNION {[1..k -> S] : k \in 0..n}

NoCapture ==
    [sample_start |-> None, frequency |-> None, timestamp |-> None, agc |-> None,
     gain |-> None, sequence_num |-> None, extra_fields |-> <<>>]

CaptureLists ==
    { <<>>,
      <<[NoCapture EXCEPT !.agc = Some(TRUE)],
        [NoCapture EXCEPT !.frequency = Some(915), !.timestamp = Some("t2"),
                          !.gain = Some(30), !.sequence_num = Some(7)]>>,
      <<[NoCapture EXCEPT !.timestamp = Some("t1"), !.sample_start = Some(0)],
        [NoCapture EXCEPT !.frequency = Some(433), !.gain = Some(12),
                          !.sequence_num = Some(3)]>> }

GlobalInfo(datatype, full) ==
    [datatype |-> datatype, sample_rate |-> 2, version |-> "1.0.0",
     description |-> None,
     author |-> IF full THEN Some("snw") ELSE None,
     license |-> None,
     hardware |-> IF full THEN Some("b210") ELSE None,
     geolocation |-> IF full
                     THEN Some([geo_type |-> "Point", coordinates |-> <<38, 77>>])
                     ELSE None]

Metadata(datatype, captures, annotations) ==
    [global |-> GlobalInfo(datatype, captures # <<>>), captures |-> captures,
     annotations |-> annotations]

DatatypeStrings == {"cf32_le", "ci16_le", "CF32_LE", "", "foo_bar", "cf32_be"}

\* A metadata file on disk: whether read_to_string succeeds, whether serde_json
\* accepts the text, and the SigMFMetadata it deserialises to
MetaContent(read_ok, json_ok, metadata) ==
    [read_ok |-> read_ok, json_ok |-> json_ok, metadata |-> metadata]

PlainMetadata == Metadata("cf32_le", <<>>, None)

\* The walk's i-th entry; its path has stem i
WalkError(i) == [kind |-> "walk_err", path |-> <<i, "">>,
                 file |-> MetaContent(FALSE, FALSE, PlainMetadata)]

OtherEntry(i) == [kind |-> "entry", path |-> <<i, "txt">>,
                  file |-> MetaContent(TRUE, FALSE, PlainMetadata)]

MetaEntry(i, file) == [kind |-> "entry", path |-> <<i, "sigmf-meta">>, file |-> file]

DataFile(exists, len) == [exists |-> exists, len |-> len]

-----------------------------------------------------------------------------
(* gui_main.rs: filter texts.  A text is a string; chars gives its          *)
(* characters, and the parsers below read the characters as                *)
(* str::parse::<i64>, str::parse::<f64> and str::to_lowercase do.          *)

\* The number of non-blank filter entries the model lets the user keep at once
MaxActive == 2

\* str::chars for the texts the model types into the filter boxes
chars(text) ==
    CASE text = "" -> <<>>
      [] text = "5" -> <<"5">>
      [] text = "5.0" -> <<"5", ".", "0">>
      [] text = "2.5" -> <<"2", ".", "5">>
      [] text = " 5" -> <<" ", "5">>
      [] text = "-1" -> <<"-", "1">>
      [] text = "+9" -> <<"+", "9">>
      [] text = "TRUE" -> <<"T", "R", "U", "E">>
      [] text = "true" -> <<"t", "r", "u", "e">>
      [] text = "False" -> <<"F", "a", "l", "s", "e">>
      [] text = "false" -> <<"f", "a", "l", "s", "e">>
      [] text = "yes" -> <<"y", "e", "s">>
      [] text = "cf32_le" -> <<"c", "f", "3", "2", "_", "l", "e">>
      [] text = "CF32_LE" -> <<"C", "F", "3", "2", "_", "L", "E">>
      [] text = "cf32_le " -> <<"c", "f", "3", "2", "_", "l", "e", " ">>
      [] text = "cf32" -> <<"c", "f", "3", "2">>
      [] text = "ci16_le" -> <<"c", "i", "1", "6", "_", "l", "e">>
      [] text = "20" -> <<"2", "0">>

digit(c) ==
    CASE c = "0" -> 0 [] c = "1" -> 1 [] c = "2" -> 2 [] c = "3" -> 3
      [] c = "4" -> 4 [] c = "5" -> 5 [] c = "6" -> 6 [] c = "7" -> 7
      [] c = "8" -> 8 [] c = "9" -> 9

is_digits(s) == \A i \in DOMAIN s : s[i] \in {"0", "1", "2", "3", "4", "5", "6", "7", "8", "9"}

RECURSIVE digits_value(_)
\* The number a run of decimal digits denotes
digits_value(s) ==
    IF s = <<>> THEN 0
    ELSE 10 * digits_value(SubSeq(s, 1, Len(s) - 1)) + digit(s[Len(s)])

RECURSIVE pow10(_)
pow10(n) == IF n = 0 THEN 1 ELSE 10 * pow10(n - 1)

\* The characters after an optional leading sign
unsigned_part(s) == IF s # <<>> /\ s[1] \in {"+", "-"} THEN Tail(s) ELSE s

negative(s) == s # <<>> /\ s[1] = "-"

\* A parser of integers that also reads a decimal point followed by zeros
parse_i64_decimal(text) ==
    LET s == chars(text)
        body == unsigned_part(s)
        dots == {i \in DOMAIN body : body[i] = "."}
        whole == IF dots = {} THEN body
                 ELSE SubSeq(body, 1, (CHOOSE i \in dots : TRUE) - 1)
    IN IF whole = <<>> \/ ~is_digits(whole) THEN None
       ELSE Some(IF negative(s) THEN 0 - digits_value(whole) ELSE digits_value(whole))

\* filter_text.parse::<i64>(): an optional sign and then one or more digits,
\* nothing else (no blanks, no decimal point).  The texts of the model are
\* far from the 64-bit range.
parse_i64(text) ==
    LET s == chars(text)
        body == unsigned_part(s)
    IN IF body = <<>> \/ ~is_digits(body) THEN None
       ELSE Some(IF negative(s) THEN 0 - digits_value(body) ELSE digits_value(body))

\* filter_text.parse::<f64>(): an optional sign, then digits with an optional
\* decimal point, at least one digit in all.  The value is kept as the exact
\* quotient num/den.  (Exponents, "inf" and "nan" are not among the texts of
\* the model.)
parse_f64(text) ==
    LET s == chars(text)
        body == unsigned_part(s)
        dots == {i \in DOMAIN body : body[i] = "."}
        sign == IF negative(s) THEN 0 - 1 ELSE 1
    IN IF dots = {}
       THEN IF body = <<>> \/ ~is_digits(body) THEN None
            ELSE Some([num |-> sign * digits_value(body), den |-> 1])
       ELSE IF Cardinality(dots) > 1 THEN None
       ELSE LET k == CHOOSE i \in dots : TRUE
                whole == SubSeq(body, 1, k - 1)
                frac == SubSeq(body, k + 1, Len(body))
            IN IF ~is_digits(whole) \/ ~is_digits(frac) \/ Len(body) = 1 THEN None
               ELSE Some([num |-> sign * (digits_value(whole) * pow10(Len(frac))
                                          + digits_value(frac)),
                          den |-> pow10(Len(frac))])

lower_char(c) ==
    CASE c = "T" -> "t" [] c = "R" -> "r" [] c = "U" -> "u" [] c = "E" -> "e"
      [] c = "F" -> "f" [] c = "A" -> "a" [] c = "L" -> "l" [] c = "S" -> "s"
      [] c = "C" -> "c" [] c = "Y" -> "y"
      [] OTHER -> c

\* A to_lowercase that leaves the text as it is
to_lowercase_none(s) == s

\* str::to_lowercase, on the characters
to_lowercase(s) == [i \in DOMAIN s |-> lower_char(s[i])]

-----------------------------------------------------------------------------
(* gui_main.rs: the table of the dataset and the predicates of apply_filters *)

\* DataFrame::get_column_names: the 40 columns in the order of the df! macro
get_column_names ==
    << "meta_filename", "data_filename", "num_samples", "file_size_bytes",
       "duration_s", "sample_rate_hz", "datatype", "sigmf_version", "author",
       "hardware", "latitude", "longitude", "geo_type", "center_freq_hz",
       "capture_datetime", "gain", "agc", "sequence_num", "snr_db", "power_dbm",
       "power_dbfs", "sig_bandwidth_hz", "sig_center_freq_hz", "ml_ask_prob",
       "ml_psk_prob", "ml_fsk_prob", "ml_am_prob", "ml_fm_prob", "ml_ook_prob",
       "ml_chirp_prob", "ml_constellation_prob", "ml_css_prob", "ml_wifi_prob",
       "ml_cell_prob", "ml_radar_prob", "ml_no_sig", "sig_uuid", "sdr_handle",
       "freq_lower_edge_hz", "freq_upper_edge_hz" >>

ColumnNames == {get_column_names[i] : i \in DOMAIN get_column_names}

\* Series::dtype of a column, from the Rust types given to the df! macro
dtype(column_name) ==
    IF column_name \in {"meta_filename", "data_filename", "datatype", "sigmf_version",
                        "author", "hardware", "geo_type", "capture_datetime",
                        "sig_uuid", "sdr_handle"} THEN "String"
    ELSE IF column_name \in {"num_samples", "file_size_bytes", "sequence_num"} THEN "UInt64"
    ELSE IF column_name \in {"agc", "ml_no_sig"} THEN "Boolean"
    ELSE "Float64"

\* dataset.column(column_name): Ok for the columns of the schema
column(column_name) ==
    IF column_name \in ColumnNames THEN Ok(column_name)
    ELSE Err("ColumnNotFound", <<column_name>>)

\* A float cell as a quotient: duration_s is one already (f64_div)
as_quotient(column_name, value) ==
    IF column_name = "duration_s" THEN value ELSE [num |-> value, den |-> 1]

\* a >= b for two quotients with positive denominators
quotient_ge(a, b) == a.num * b.den >= b.num * a.den

\* The expression a match arm of apply_filters gives to filtered.filter, if it
\* gives one: lines 221-248
predicate(column_name, filter_text) ==
    LET kind == dtype(column_name)
    IN IF kind = "String"
       THEN Some([op |-> "eq", col |-> column_name, lit |-> <<filter_text>>])
       ELSE IF kind = "Float64"
       THEN LET num == parse_f64(filter_text)
            IN IF is_some(num)
               THEN Some([op |-> "gt_eq_f64", col |-> column_name, lit |-> num])
               ELSE None
       ELSE IF kind = "UInt64"
       THEN LET num == parse_i64(filter_text)
            IN IF is_some(num)
               THEN Some([op |-> "gt_eq_i64", col |-> column_name, lit |-> num])
               ELSE None
       ELSE IF to_lowercase(chars(filter_text)) = chars("true")
            THEN Some([op |-> "col", col |-> column_name, lit |-> <<>>])
            ELSE IF to_lowercase(chars(filter_text)) = chars("false")
            THEN Some([op |-> "not", col |-> column_name, lit |-> <<>>])
            ELSE None

\* Iterator::take
take(s, n) == SubSeq(s, 1, IF Len(s) < n THEN Len(s) ELSE n)

\* The expressions with > in the place of >=
holds_strict(expr, row) ==
    LET value == row[expr.col]
    IN CASE expr.op = "eq" -> value = expr.lit[1]
         [] expr.op = "gt_eq_f64" ->
                ~quotient_ge(expr.lit[1], as_quotient(expr.col, value))
         [] expr.op = "gt_eq_i64" -> value > expr.lit[1]
         [] expr.op = "col" -> value
         [] expr.op = "not" -> ~value

\* The expressions with an eq that ignores case
holds_ignore_case(expr, row) ==
    LET value == row[expr.col]
    IN CASE expr.op = "eq" ->
                to_lowercase(chars(value)) = to_lowercase(chars(expr.lit[1]))
         [] expr.op = "gt_eq_f64" -> quotient_ge(as_quotient(expr.col, value), expr.lit[1])
         [] expr.op = "gt_eq_i64" -> value >= expr.lit[1]
         [] expr.op = "col" -> value
         [] expr.op = "not" -> ~value

\* The value of a predicate expression on one row
holds(expr, row) ==
    LET value == row[expr.col]
    IN CASE expr.op = "eq" -> value = expr.lit[1]
         [] expr.op = "gt_eq_f64" -> quotient_ge(as_quotient(expr.col, value), expr.lit[1])
         [] expr.op = "gt_eq_i64" -> value >= expr.lit[1]
         [] expr.op = "col" -> value
         [] expr.op = "not" -> ~value

\* A filter that keeps the first row on which the expression holds and no other
lazy_filter_head(frame, expr) == take(SelectSeq(frame, LAMBDA row : holds(expr, row)), 1)

\* A filter that loses the first row on which the expression holds
lazy_filter_tail(frame, expr) ==
    LET kept == SelectSeq(frame, LAMBDA row : holds(expr, row))
    IN SubSeq(kept, 2, Len(kept))

\* LazyFrame::filter: the rows on which the expression holds, in their order
lazy_filter(frame, expr) == SelectSeq(frame, LAMBDA row : holds(expr, row))

\* The entries past the is_empty test of line 218, and the keys that are not
\* columns of the table
active_entries(column_filters) ==
    {k \in DOMAIN column_filters : column_filters[k] # "" \/ k \notin ColumnNames}

\* for (column_name, filter_text) in &self.column_filters: a HashMap yields its
\* entries in an order the program does not choose.  The orders of the model
\* are every order of the active entries, followed by the blank ones.
iteration_orders(column_filters) ==
    LET keys == active_entries(column_filters)
        blank == SelectSeq(get_column_names,
                           LAMBDA c : c \in DOMAIN column_filters /\ c \notin keys)
    IN {p \o blank : p \in {q \in [1..Cardinality(keys) -> keys] :
                              \A i, j \in DOMAIN q : q[i] = q[j] => i = j}}

RECURSIVE filter_loop_first_only(_, _, _, _)
\* The loop leaving after the first predicate it applied
filter_loop_first_only(filtered, column_filters, order, i) ==
    IF i > Len(order) THEN filtered
    ELSE LET column_name == order[i]
             filter_text == column_filters[column_name]
         IN IF filter_text # "" /\ column(column_name).ok
                /\ is_some(predicate(column_name, filter_text))
            THEN lazy_filter(filtered, predicate(column_name, filter_text)[1])
            ELSE filter_loop_first_only(filtered, column_filters, order, i + 1)

RECURSIVE filter_loop_blank_too(_, _, _, _)
\* The loop without the is_empty test: a blank text is a predicate like another
filter_loop_blank_too(filtered, column_filters, order, i) ==
    IF i > Len(order) THEN filtered
    ELSE LET column_name == order[i]
             filter_text == column_filters[column_name]
             next ==
                 IF column(column_name).ok
                 THEN LET expr == predicate(column_name, filter_text)
                      IN IF is_some(expr) THEN lazy_filter(filtered, expr[1])
                         ELSE filtered
                 ELSE filtered
         IN filter_loop_blank_too(next, column_filters, order, i + 1)

RECURSIVE filter_loop(_, _, _, _)
\* apply_filters, lines 217-251: the loop over the entries from the i-th on
filter_loop(filtered, column_filters, order, i) ==
    IF i > Len(order) THEN filtered
    ELSE LET column_name == order[i]
             filter_text == column_filters[column_name]
             next ==
                 IF filter_text # ""
                 THEN IF column(column_name).ok
                      THEN LET expr == predicate(column_name, filter_text)
                           IN IF is_some(expr) THEN lazy_filter(filtered, expr[1])
                              ELSE filtered
                      ELSE filtered
                 ELSE filtered
         IN filter_loop(next, column_filters, order, i + 1)

\* filtered.collect(), line 253: the lazy frame evaluated, or the error of the
\* query engine
collect(filtered, engine_ok) ==
    IF engine_ok THEN Ok(filtered) ELSE Err("PolarsError", <<>>)

\* The u64 0 that last_filter_hash starts with
NoHash == [zero |-> TRUE, pairs |-> <<>>]

\* calculate_filter_hash, lines 270-283: the hash of the entries sorted by key.
\* The hash is a function of the mapping alone; the model keeps the mapping
\* itself (two mappings never share a hash, and none hashes to 0).
calculate_filter_hash(self) == [zero |-> FALSE, pairs |-> self.column_filters]

\* invalidate_cache, lines 137-140
invalidate_cache(self) == [self EXCEPT !.cache_valid = FALSE, !.table_cache = None]

\* clear_selection, lines 718-721
clear_selection(self) == [self EXCEPT !.selected_row = None, !.selected_row_data = None]

\* The path apply_filters takes: it returns at line 201 without a dataset, at
\* line 209 when the hash of the filters is the stored one, and else evaluates
apply_filters_path(self, engine_ok) ==
    IF self.dataset = None THEN "no_dataset"
    ELSE IF calculate_filter_hash(self) = self.last_filter_hash THEN "unchanged"
    ELSE IF engine_ok THEN "collected" ELSE "failed"

\* apply_filters with the Err arm storing the partial frame as the dataset
apply_filters_overwriting(self, order, engine_ok) ==
    IF self.dataset = None THEN self
    ELSE LET dataset == self.dataset[1]
             current_hash == calculate_filter_hash(self)
         IN IF current_hash = self.last_filter_hash THEN self
            ELSE LET filtered == filter_loop(dataset, self.column_filters, order, 1)
                     collected == collect(filtered, engine_ok)
                     hashed == [self EXCEPT !.last_filter_hash = current_hash]
                 IN IF collected.ok
                    THEN [invalidate_cache([hashed EXCEPT
                              !.filtered_dataset = Some(collected.val[1])])
                          EXCEPT !.status_message =
                              <<"Showing", Len(collected.val[1]), Len(dataset)>>]
                    ELSE [hashed EXCEPT
                              !.error_message = Some(<<"Filter error", collected.err>>),
                              !.dataset = Some(filtered),
                              !.filtered_dataset = Some(dataset)]

\* apply_filters with the Err arm showing the frame the loop had built
apply_filters_showing_partial(self, order, engine_ok) ==
    IF self.dataset = None THEN self
    ELSE LET dataset == self.dataset[1]
             current_hash == calculate_filter_hash(self)
         IN IF current_hash = self.last_filter_hash THEN self
            ELSE LET filtered == filter_loop(dataset, self.column_filters, order, 1)
                     collected == collect(filtered, engine_ok)
                     hashed == [self EXCEPT !.last_filter_hash = current_hash]
                 IN IF collected.ok
                    THEN [invalidate_cache([hashed EXCEPT
                              !.filtered_dataset = Some(collected.val[1])])
                          EXCEPT !.status_message =
                              <<"Showing", Len(collected.val[1]), Len(dataset)>>]
                    ELSE [hashed EXCEPT
                              !.error_message = Some(<<"Filter error", collected.err>>),
                              !.filtered_dataset = Some(filtered)]

\* apply_filters, lines 197-268
apply_filters(self, order, engine_ok) ==
    IF self.dataset = None THEN self
    ELSE LET dataset == self.dataset[1]
             current_hash == calculate_filter_hash(self)
         IN IF current_hash = self.last_filter_hash THEN self
            ELSE LET filtered == filter_loop(dataset, self.column_filters, order, 1)
                     collected == collect(filtered, engine_ok)
                     hashed == [self EXCEPT !.last_filter_hash = current_hash]
                 IN IF collected.ok
                    THEN [invalidate_cache([hashed EXCEPT
                              !.filtered_dataset = Some(collected.val[1])])
                          EXCEPT !.status_message =
                              <<"Showing", Len(collected.val[1]), Len(dataset)>>]
                    ELSE [hashed EXCEPT
                              !.error_message = Some(<<"Filter error", collected.err>>),
                              !.filtered_dataset = Some(dataset)]

\* build_table_cache keeps at most this many rows (line 147)
CachedRows == 1000

\* x > 1000 and x < 1/100 on a quotient's absolute value (lines 652 and 663)
quotient_abs(q) == [num |-> IF q.num < 0 THEN 0 - q.num ELSE q.num, den |-> q.den]

\* format_cell_value, lines 645-685: the format chosen for the cell and the
\* value it prints
format_cell_value(column_name, value) ==
    IF dtype(column_name) = "Float64"
    THEN LET val == quotient_abs(as_quotient(column_name, value))
         IN IF val.num > 1000 * val.den \/ (100 * val.num < val.den /\ val.num # 0)
            THEN [fmt |-> "{:.2e}", val |-> <<value>>]
            ELSE [fmt |-> "{:.3}", val |-> <<value>>]
    ELSE [fmt |-> "{}", val |-> <<value>>]

\* get_visible_columns, lines 538-544
get_visible_columns(self) ==
    SelectSeq(get_column_names, LAMBDA col_name : col_name \notin self.hidden_columns)

\* build_table_cache, lines 142-165
build_table_cache(self, dataset, visible_columns) ==
    IF self.cache_valid THEN self
    ELSE LET num_rows == IF Len(dataset) < CachedRows THEN Len(dataset) ELSE CachedRows
             cache == [row_idx \in 1..num_rows |->
                          [k \in DOMAIN visible_columns |->
                              format_cell_value(visible_columns[k],
                                                dataset[row_idx][visible_columns[k]])]]
         IN [self EXCEPT !.table_cache = Some(cache), !.cache_valid = TRUE]

\* render_dataset_table, lines 360-363: the cache is built from the frame that
\* line 286 cloned when the function was entered
build_cache_if_needed(self, dataset) ==
    IF ~self.cache_valid \/ self.table_cache = None
    THEN build_table_cache(self, dataset, get_visible_columns(self))
    ELSE self

\* update, lines 608-620, in a frame whose table receives no input
render(self) ==
    IF self.dataset # None /\ self.filtered_dataset # None
    THEN build_cache_if_needed(self, self.filtered_dataset[1])
    ELSE self

\* select_row, lines 690-716 (row_index counts from 0)
select_row(self, row_index) ==
    LET selected == [self EXCEPT !.selected_row = Some(row_index)]
    IN IF self.filtered_dataset # None
       THEN LET dataset == self.filtered_dataset[1]
            IN IF row_index < Len(dataset)
               THEN [selected EXCEPT !.selected_row_data =
                        Some([c \in ColumnNames |->
                                 format_cell_value(c, dataset[row_index + 1][c])])]
               ELSE [selected EXCEPT !.selected_row_data = None]
       ELSE [selected EXCEPT !.selected_row_data = None]

\* AppConfig::default, the configuration of a first start, and a saved
\* configuration that shows four columns, one of each dtype
NoConfig == [hidden_columns |-> {}]

SavedConfig ==
    [hidden_columns |-> ColumnNames \ {"num_samples", "datatype", "gain", "agc"}]

\* No frame has run yet
NoEvent == [handler |-> "none", path |-> ""]

\* SigViewerApp::new, lines 90-128.  The fields that take no part in loading,
\* filtering, caching and selection (directory_path, file_dialog, the theme,
\* visible_row_range, show_visualization_dialog) are left out.
new(config) ==
    [dataset |-> None,
     filtered_dataset |-> None,
     status_message |-> <<"No data loaded">>,
     column_filters |-> <<>>,
     show_load_dialog |-> TRUE,
     error_message |-> None,
     hidden_columns |-> config.hidden_columns,
     show_column_selector |-> FALSE,
     table_cache |-> None,
     cache_valid |-> FALSE,
     last_filter_hash |-> NoHash,
     selected_row |-> None,
     selected_row_data |-> None]

\* load_dataset that rebuilds the filter entries only when there are none yet:
\* a reload keeps the texts of the previous dataset
load_dataset_keeping_filters(self, loaded) ==
    LET loading == [self EXCEPT !.status_message = <<"Loading...">>,
                                !.error_message = None]
    IN IF loaded.ok
       THEN LET dataset == loaded.val[1]
            IN invalidate_cache(
                   [loading EXCEPT
                       !.status_message = <<"Loaded", Len(dataset)>>,
                       !.column_filters = IF self.column_filters = <<>>
                                          THEN [col_name \in ColumnNames |-> ""]
                                          ELSE self.column_filters,
                       !.filtered_dataset = Some(dataset),
                       !.dataset = Some(dataset),
                       !.show_load_dialog = FALSE])
       ELSE [loading EXCEPT
                !.error_message = Some(<<"Failed to load dataset", loaded.err>>),
                !.status_message = <<"Load failed">>]

\* load_dataset, lines 167-195; loaded is what SigMFDataset::from_directory
\* returned
load_dataset(self, loaded) ==
    LET loading == [self EXCEPT !.status_message = <<"Loading...">>,
                                !.error_message = None]
    IN IF loaded.ok
       THEN LET dataset == loaded.val[1]
            IN invalidate_cache(
                   [loading EXCEPT
                       !.status_message = <<"Loaded", Len(dataset)>>,
                       !.column_filters = [col_name \in ColumnNames |-> ""],
                       !.filtered_dataset = Some(dataset),
                       !.dataset = Some(dataset),
                       !.show_load_dialog = FALSE])
       ELSE [loading EXCEPT
                !.error_message = Some(<<"Failed to load dataset", loaded.err>>),
                !.status_message = <<"Load failed">>]

\* update, lines 574-584: the Clear Filters menu entry
clear_filters(self) ==
    LET cleared == [self EXCEPT !.column_filters =
                       [k \in DOMAIN self.column_filters |-> ""]]
    IN IF is_some(self.dataset)
       THEN [cleared EXCEPT !.filtered_dataset = self.dataset,
                            !.status_message = <<"Showing all", Len(self.dataset[1])>>]
       ELSE cleared


-----------------------------------------------------------------------------
(* Initial states: a directory as WalkDir lists it, and the data files *)

\* One metadata file with every annotation list up to MaxAnns
RowInputs ==
    { [entry |-> MetaEntry(1, MetaContent(TRUE, TRUE, Metadata("ci16_le", caps, anns))),
       data |-> DataFile(TRUE, MaxFileSize)] :
        caps \in CaptureLists,
        anns \in {None} \cup {Some(a) : a \in SeqsUpTo(AnnotationKinds, MaxAnns)} }

\* One metadata file with every datatype string, file state and data file size
FileInputs ==
    { [entry |-> MetaEntry(1, file), data |-> DataFile(exists, len)] :
        file \in {MetaContent(FALSE, FALSE, PlainMetadata),
                  MetaContent(TRUE, FALSE, PlainMetadata)}
                 \cup {MetaContent(TRUE, TRUE, Metadata(dt, <<>>, anns)) :
                         dt \in DatatypeStrings,
                         anns \in {None, Some(<<[NoAnnotation EXCEPT !.ask_prob = Some(41)],
                                                 [NoAnnotation EXCEPT !.psk_prob = Some(51)]>>)}},
        exists \in BOOLEAN,
        len \in 0..MaxFileSize }

\* What the walk can yield at position i of a directory of several entries
DirInputs(i) ==
    { [entry |-> WalkError(i), data |-> DataFile(FALSE, 0)],
      [entry |-> OtherEntry(i), data |-> DataFile(FALSE, 0)],
      [entry |-> MetaEntry(i, MetaContent(FALSE, FALSE, PlainMetadata)),
       data |-> DataFile(TRUE, 8)],
      [entry |-> MetaEntry(i, MetaContent(TRUE, FALSE, PlainMetadata)),
       data |-> DataFile(TRUE, 8)],
      [entry |-> MetaEntry(i, MetaContent(TRUE, TRUE, Metadata("foo_bar", <<>>, None))),
       data |-> DataFile(TRUE, 8)],
      [entry |-> MetaEntry(i, MetaContent(TRUE, TRUE, PlainMetadata)),
       data |-> DataFile(FALSE, 0)],
      [entry |-> MetaEntry(i, MetaContent(TRUE, TRUE, PlainMetadata)),
       data |-> DataFile(TRUE, 16)],
      [entry |-> MetaEntry(i, MetaContent(TRUE, TRUE, Metadata("ci16_le", <<>>,
                    Some(<<[NoAnnotation EXCEPT !.sig_center_freq = Some(100 + i)],
                           NoAnnotation,
                           [NoAnnotation EXCEPT !.ask_prob = Some(200 + i)]>>)))),
       data |-> DataFile(TRUE, 10)] }

RECURSIVE DirSeqs(_)
\* The directories of n entries
DirSeqs(n) ==
    IF n = 0 THEN {<<>>}
    ELSE {Append(d, e) : d \in DirSeqs(n - 1), e \in DirInputs(n)}

Directories ==
    {<<r>> : r \in RowInputs} \cup {<<f>> : f \in FileInputs}
    \cup UNION {DirSeqs(n) : n \in 1..MaxEntries}

Init ==
    \E d \in Directories :
        /\ walk = [i \in DOMAIN d |-> d[i].entry]
        /\ data_files = [i \in DOMAIN d |-> d[i].data]
        /\ pc = "walk"
        /\ idx = 0
        /\ parser = None
        /\ exists_seen = FALSE
        /\ all_rows = <<>>
        /\ processed_count = 0
        /\ error_count = 0
        /\ stderr = <<>>
        /\ result = None
        /\ app = new(NoConfig)
        /\ event = NoEvent

-----------------------------------------------------------------------------
(* dataset.rs: SigMFDataset::from_directory *)

Report(path, stage, err) == [path |-> path, stage |-> stage, err |-> err]

\* from_directory, lines 53-57: the first frame stacked with the frames after it
\* combine without the skip(1): the first frame is stacked twice
combine_skip_none(frames) == vstack_from(frames[1], frames, 1)

combine(frames) == vstack_from(frames[1], frames, 2)

\* Lines 19-45 up to the call of to_summary_row: the next entry of the walk.
\* A walk error returns it (entry?); an entry without the .sigmf-meta extension
\* is skipped; a metadata file is given to from_meta_file.
NextEntry ==
    /\ pc = "walk"
    /\ idx < Len(walk)
    /\ idx' = idx + 1
    /\ LET entry == walk[idx + 1]
           path == entry.path
       IN IF entry.kind = "walk_err"
          THEN /\ result' = Some(Err("walkdir", path))
               /\ pc' = "done"
               /\ UNCHANGED <<parser, processed_count, error_count, stderr>>
          ELSE IF extension(path) # "sigmf-meta"
          THEN UNCHANGED <<result, pc, parser, processed_count, error_count, stderr>>
          ELSE LET r == from_meta_file(path, entry.file, data_files)
               IN /\ processed_count' = processed_count + 1
                  /\ result' = result
                  /\ IF r.ok
                     THEN /\ parser' = Some(r.val[1])
                          /\ pc' = "exists"
                          /\ UNCHANGED <<error_count, stderr>>
                     ELSE /\ error_count' = error_count + 1
                          /\ stderr' = Append(stderr, Report(path, "parse", r.err))
                          /\ UNCHANGED <<parser, pc>>
    /\ UNCHANGED <<walk, data_files, exists_seen, all_rows>>
    /\ UNCHANGED <<app, event>>

\* to_summary_rows, line 71: self.data_file_path.exists()
SummaryExists ==
    /\ pc = "exists"
    /\ exists_seen' = path_exists(data_files, parser[1].data_file_path)
    /\ pc' = "rows"
    /\ UNCHANGED <<walk, data_files, idx, parser, all_rows, processed_count,
                   error_count, stderr, result>>
    /\ UNCHANGED <<app, event>>

\* to_summary_rows from line 72 on, and the match on its result (lines 31-37)
SummaryRows ==
    /\ pc = "rows"
    /\ LET self == parser[1]
           r == to_summary_rows(self, exists_seen,
                                fs_metadata_len(data_files, self.data_file_path))
       IN IF r.ok
          THEN /\ all_rows' = Append(all_rows, r.val[1])
               /\ UNCHANGED <<error_count, stderr>>
          ELSE /\ error_count' = error_count + 1
               /\ stderr' = Append(stderr, Report(walk[idx].path, "summary", r.err))
               /\ UNCHANGED all_rows
    /\ parser' = None
    /\ pc' = "walk"
    /\ UNCHANGED <<walk, data_files, idx, exists_seen, processed_count, result>>
    /\ UNCHANGED <<app, event>>

\* Lines 47-60: after the walk
Finish ==
    /\ pc = "walk"
    /\ idx = Len(walk)
    /\ result' = IF all_rows = <<>> THEN Some(Err("NoValidFiles", <<>>))
                 ELSE Some(Ok(combine(all_rows)))
    /\ pc' = "done"
    /\ UNCHANGED <<walk, data_files, idx, parser, exists_seen, all_rows,
                   processed_count, error_count, stderr>>
    /\ UNCHANGED <<app, event>>

\* The environment: another process removes the data file of the file being
\* processed, after from_meta_file saw it.  (A file removed before that is a
\* directory whose data file is absent from the start.)
RemoveDataFile ==
    /\ pc \in {"exists", "rows"}
    /\ path_exists(data_files, parser[1].data_file_path)
    /\ data_files' = [data_files EXCEPT ![parser[1].data_file_path[1]].exists = FALSE]
    /\ UNCHANGED <<walk, pc, idx, parser, exists_seen, all_rows, processed_count,
                   error_count, stderr, result>>
    /\ UNCHANGED <<app, event>>

Next ==
    \/ NextEntry
    \/ SummaryExists
    \/ SummaryRows
    \/ Finish
    \/ RemoveDataFile

Spec == Init /\ [][Next]_vars

-----------------------------------------------------------------------------
(* dataset.rs as gui_main.rs calls it *)

RECURSIVE walk_frames(_, _, _, _)
\* from_directory, lines 19-45, on a directory nothing else writes to: the
\* frames of the entries from the i-th on, or the error of the walk
walk_frames(entries, fsys, i, frames) ==
    IF i > Len(entries) THEN Ok(frames)
    ELSE LET entry == entries[i]
         IN IF entry.kind = "walk_err" THEN Err("walkdir", entry.path)
            ELSE IF extension(entry.path) # "sigmf-meta"
            THEN walk_frames(entries, fsys, i + 1, frames)
            ELSE LET parsed == from_meta_file(entry.path, entry.file, fsys)
                 IN IF ~parsed.ok THEN walk_frames(entries, fsys, i + 1, frames)
                    ELSE LET self == parsed.val[1]
                             rows == to_summary_rows(self,
                                         path_exists(fsys, self.data_file_path),
                                         fs_metadata_len(fsys, self.data_file_path))
                         IN walk_frames(entries, fsys, i + 1,
                                IF rows.ok THEN Append(frames, rows.val[1]) ELSE frames)

\* SigMFDataset::from_directory, lines 11-61, on a directory nothing else
\* writes to
from_directory(dir) ==
    LET walked == walk_frames([i \in DOMAIN dir |-> dir[i].entry],
                              [i \in DOMAIN dir |-> dir[i].data], 1, <<>>)
    IN IF ~walked.ok THEN walked
       ELSE IF walked.val[1] = <<>> THEN Err("NoValidFiles", <<>>)
       ELSE Ok(combine(walked.val[1]))

-----------------------------------------------------------------------------
(* gui_main.rs: the application, one action per frame that receives an input *)

\* A metadata file with one capture, and its data file of len bytes
GuiFile(i, datatype, gain, agc, len) ==
    [entry |-> MetaEntry(i, MetaContent(TRUE, TRUE,
                   Metadata(datatype,
                            <<[NoCapture EXCEPT !.gain = Some(gain), !.agc = Some(agc),
                                                !.sequence_num = Some(gain + 1)]>>,
                            None))),
     data |-> DataFile(TRUE, len)]

\* The directories the user loads: three recordings with gains 1, 5 and 9,
\* a single recording, and a directory without a usable file
GuiDirectories ==
    { << GuiFile(1, "cf32_le", 1, TRUE, 72), GuiFile(2, "ci16_le", 5, FALSE, 20),
         GuiFile(3, "cf32_le", 9, TRUE, 8) >>,
      << GuiFile(1, "ci16_le", 5, TRUE, 20) >>,
      << [entry |-> OtherEntry(1), data |-> DataFile(FALSE, 0)] >> }

\* The columns whose filter boxes the model types into and what it types there
TypedColumns == {"gain", "agc"}

TypedTexts(column_name) ==
    CASE column_name = "gain" -> {"5"}
      [] column_name = "agc" -> {"TRUE"}

\* The columns whose visibility the model toggles one by one
ToggledColumns == {"agc"}

Event(handler, path) == [handler |-> handler, path |-> path]

Frame(self, handler, path) ==
    /\ app' = self
    /\ event' = Event(handler, path)
    /\ UNCHANGED <<walk, data_files, pc, idx, parser, exists_seen, all_rows,
                   processed_count, error_count, stderr, result>>

\* The filter boxes of lines 337-351: the first eight visible columns
filter_boxes(self) ==
    LET shown == take(get_visible_columns(self), 8)
    IN {shown[k] : k \in DOMAIN shown}

\* render_load_dialog, lines 448-450: Load is clicked on a directory
LoadClicked ==
    /\ app.show_load_dialog
    /\ \E dir \in GuiDirectories :
          LET loaded == from_directory(dir)
          IN Frame(load_dataset(render(app), loaded), "load_dataset",
                   IF loaded.ok THEN "loaded" ELSE "failed")

\* update, lines 563-566 and 615-617: the load dialog is opened
OpenLoadDialog ==
    /\ ~app.show_load_dialog
    /\ Frame(render([app EXCEPT !.show_load_dialog = TRUE]), "open_load_dialog", "")

\* render_dataset_table, lines 342-348: the text of a filter box changes
FilterEdited ==
    /\ app.dataset # None /\ app.filtered_dataset # None
    /\ \E column_name \in filter_boxes(app) \cap TypedColumns :
       \E filter_text \in (TypedTexts(column_name) \cup {""})
                          \ {app.column_filters[column_name]} :
          LET edited == [app EXCEPT !.column_filters[column_name] = filter_text]
          IN /\ Cardinality(active_entries(edited.column_filters)) <= MaxActive
             /\ \E order \in iteration_orders(edited.column_filters) :
                \E engine_ok \in BOOLEAN :
                   Frame(build_cache_if_needed(
                             clear_selection(apply_filters(edited, order, engine_ok)),
                             app.filtered_dataset[1]),
                         "apply_filters", apply_filters_path(edited, engine_ok))

\* render_dataset_table, lines 327-331: the Apply Filters button
ApplyFiltersClicked ==
    /\ app.dataset # None /\ app.filtered_dataset # None
    /\ \E order \in iteration_orders(app.column_filters) :
       \E engine_ok \in BOOLEAN :
          Frame(build_cache_if_needed(
                    clear_selection(invalidate_cache(apply_filters(app, order, engine_ok))),
                    app.filtered_dataset[1]),
                "apply_filters", apply_filters_path(app, engine_ok))

\* update, lines 574-584: View > Clear Filters
ClearFiltersClicked ==
    /\ app' = render(clear_filters(app))
    /\ event' = Event("clear_filters", "")
    /\ UNCHANGED <<walk, data_files, pc, idx, parser, exists_seen, all_rows,
                   processed_count, error_count, stderr, result>>

\* render_dataset_table, lines 399-405 and 425-430: a row's selector is clicked
RowClicked ==
    /\ app.dataset # None /\ app.filtered_dataset # None
    /\ get_visible_columns(app) # <<>>
    /\ LET drawn == build_cache_if_needed(app, app.filtered_dataset[1])
       IN \E row_index \in 0..(Len(drawn.table_cache[1]) - 1) :
             IF drawn.selected_row = Some(row_index)
             THEN Frame(clear_selection(drawn), "clear_selection", "")
             ELSE Frame(select_row(drawn, row_index), "select_row", "")

\* render_dataset_table, lines 305-307: the Clear Selection button
ClearSelectionClicked ==
    /\ app.dataset # None /\ app.filtered_dataset # None
    /\ app.selected_row # None
    /\ Frame(build_cache_if_needed(clear_selection(app), app.filtered_dataset[1]),
             "clear_selection", "")

\* Lines 324-326 and 585-588: the column selector is opened
OpenColumnSelector ==
    /\ ~app.show_column_selector
    /\ Frame(render([app EXCEPT !.show_column_selector = TRUE]),
             "open_column_selector", "")

\* render_column_selector, lines 497-513: a column's checkbox is toggled
ColumnToggled ==
    /\ app.show_column_selector
    /\ app.dataset # None
    /\ \E column_name \in ToggledColumns :
          LET drawn == render(app)
              hidden == IF column_name \in drawn.hidden_columns
                        THEN drawn.hidden_columns \ {column_name}
                        ELSE drawn.hidden_columns \cup {column_name}
          IN Frame(invalidate_cache([drawn EXCEPT !.hidden_columns = hidden]),
                   "column_visibility", "toggle")

\* render_column_selector, lines 531-534: Close
ColumnSelectorClosed ==
    /\ app.show_column_selector
    /\ Frame(invalidate_cache([render(app) EXCEPT !.show_column_selector = FALSE]),
             "column_visibility", "close")

\* update, lines 637-639: OK in the error popup
ErrorDismissed ==
    /\ app.error_message # None
    /\ Frame([render(app) EXCEPT !.error_message = None], "dismiss_error", "")

\* The application starts with the configuration file it finds
GuiInit ==
    /\ app = new(SavedConfig)
    /\ event = NoEvent
    /\ walk = <<>>
    /\ data_files = <<>>
    /\ pc = "done"
    /\ idx = 0
    /\ parser = None
    /\ exists_seen = FALSE
    /\ all_rows = <<>>
    /\ processed_count = 0
    /\ error_count = 0
    /\ stderr = <<>>
    /\ result = None

GuiNext ==
    \/ LoadClicked
    \/ OpenLoadDialog
    \/ FilterEdited
    \/ ApplyFiltersClicked
    \/ ClearFiltersClicked
    \/ RowClicked
    \/ ClearSelectionClicked
    \/ OpenColumnSelector
    \/ ColumnToggled
    \/ ColumnSelectorClosed
    \/ ErrorDismissed

GuiSpec == GuiInit /\ [][GuiNext]_vars

-----------------------------------------------------------------------------
(* Vocabulary of the properties *)

\* A step in which to_summary_rows returned Ok: a frame was pushed to all_rows
Projected == pc = "rows" /\ Len(all_rows') = Len(all_rows) + 1

\* The frame such a step pushed
NewFrame == all_rows'[Len(all_rows')]

Annotations(metadata) ==
    IF metadata.annotations = None THEN <<>> ELSE metadata.annotations[1]

\* The classification the specification documents: a center frequency, an ASK
\* probability, a PSK probability, or a non-empty custom-classifier list
CarriesMlData(ann) ==
    \/ ann.sig_center_freq # None
    \/ ann.ask_prob # None
    \/ ann.psk_prob # None
    \/ (ann.custom_classifier_probs # None /\ ann.custom_classifier_probs[1] # <<>>)

\* An annotation with none of the four ML fields present at all
NoMlField(ann) ==
    /\ ann.sig_center_freq = None
    /\ ann.ask_prob = None
    /\ ann.psk_prob = None
    /\ ann.custom_classifier_probs = None

MlDefaults(row) ==
    /\ row.snr_db = 0 /\ row.power_dbm = 0 /\ row.power_dbfs = 0
    /\ row.sig_bandwidth_hz = 0 /\ row.sig_center_freq_hz = 0
    /\ row.ml_ask_prob = 0 /\ row.ml_psk_prob = 0 /\ row.ml_fsk_prob = 0
    /\ row.ml_am_prob = 0 /\ row.ml_fm_prob = 0 /\ row.ml_ook_prob = 0
    /\ row.ml_chirp_prob = 0 /\ row.ml_constellation_prob = 0 /\ row.ml_css_prob = 0
    /\ row.ml_wifi_prob = 0 /\ row.ml_cell_prob = 0 /\ row.ml_radar_prob = 0
    /\ row.ml_no_sig = FALSE /\ row.sig_uuid = "" /\ row.sdr_handle = ""

EdgeDefaults(row) == row.freq_lower_edge_hz = 0 /\ row.freq_upper_edge_hz = 0

OrZero(o) == IF o = None THEN 0 ELSE o[1]

\* The row's per-annotation columns are those of annotation ann
TakenFrom(row, ann) ==
    /\ row.snr_db = OrZero(ann.sig_snr)
    /\ row.power_dbm = OrZero(ann.sig_power_dbm)
    /\ row.power_dbfs = OrZero(ann.sig_power_dbfs)
    /\ row.sig_bandwidth_hz = OrZero(ann.sig_bandwidth)
    /\ row.sig_center_freq_hz = OrZero(ann.sig_center_freq)
    /\ row.ml_ask_prob = OrZero(ann.ask_prob)
    /\ row.ml_psk_prob = OrZero(ann.psk_prob)
    /\ row.ml_fsk_prob = OrZero(ann.fsk_prob)
    /\ row.ml_am_prob = OrZero(ann.analog_am_prob)
    /\ row.ml_fm_prob = OrZero(ann.analog_fm_prob)
    /\ row.ml_ook_prob = OrZero(ann.ook_prob)
    /\ row.ml_chirp_prob = OrZero(ann.chirp_prob)
    /\ row.ml_constellation_prob = OrZero(ann.constellation_prob)
    /\ row.ml_css_prob = OrZero(ann.css_prob)
    /\ row.ml_no_sig = (ann.ml_no_sig = Some(TRUE))
    /\ row.sig_uuid = (IF ann.uuid = None THEN "" ELSE ann.uuid[1])
    /\ row.sdr_handle = (IF ann.sdr_handle = None THEN "" ELSE ann.sdr_handle[1])

\* The file-, global- and capture-derived columns of two rows agree
SameFileColumns(r1, r2) ==
    /\ r1.meta_filename = r2.meta_filename /\ r1.data_filename = r2.data_filename
    /\ r1.num_samples = r2.num_samples /\ r1.file_size_bytes = r2.file_size_bytes
    /\ r1.duration_s = r2.duration_s /\ r1.sample_rate_hz = r2.sample_rate_hz
    /\ r1.datatype = r2.datatype /\ r1.sigmf_version = r2.sigmf_version
    /\ r1.author = r2.author /\ r1.hardware = r2.hardware
    /\ r1.latitude = r2.latitude /\ r1.longitude = r2.longitude
    /\ r1.geo_type = r2.geo_type /\ r1.center_freq_hz = r2.center_freq_hz
    /\ r1.capture_datetime = r2.capture_datetime /\ r1.gain = r2.gain
    /\ r1.agc = r2.agc /\ r1.sequence_num = r2.sequence_num

\* Every row of every frame produced so far, and of the returned dataset
ProducedRows ==
    UNION {{all_rows[k][j] : j \in 1..Len(all_rows[k])} : k \in 1..Len(all_rows)}
    \cup (IF result # None /\ result[1].ok
          THEN {result[1].val[1][j] : j \in 1..Len(result[1].val[1])}
          ELSE {})

-----------------------------------------------------------------------------
(* C1 *)

\* C1: a parsed file without any ML annotation projects to exactly one row, and
\* every annotation-derived column of that row, the two frequency-edge columns
\* included, holds its default (0.0, false or the empty string).
C1_ZeroMlRowAllDefaults ==
    [][(Projected /\ \A i \in 1..Len(Annotations(parser[1].metadata)) :
                        NoMlField(Annotations(parser[1].metadata)[i]))
        => /\ Len(NewFrame) = 1
           /\ MlDefaults(NewFrame[1])
           /\ EdgeDefaults(NewFrame[1])]_vars

-----------------------------------------------------------------------------
(* C2 *)

\* C2: a parsed file with N >= 1 ML annotations (as the specification classifies
\* them) projects to exactly N rows, the i-th row taking its per-annotation
\* columns from the i-th ML annotation, all rows agreeing on the file-, global-
\* and capture-derived columns.
C2_OneRowPerMlAnnotation ==
    [][Projected =>
        LET ml == SelectSeq(Annotations(parser[1].metadata), CarriesMlData)
        IN Len(ml) >= 1 =>
            /\ Len(NewFrame) = Len(ml)
            /\ \A i \in 1..Len(NewFrame) :
                /\ i <= Len(ml) => TakenFrom(NewFrame[i], ml[i])
                /\ SameFileColumns(NewFrame[i], NewFrame[1])]_vars

\* The same statement with the classification to_summary_rows applies (any
\* present custom-classifier list, empty or not, marks an ML annotation)
C2_WithPresentListClassification ==
    [][Projected =>
        LET ml == SelectSeq(Annotations(parser[1].metadata), LAMBDA a : ~NoMlField(a))
        IN Len(ml) >= 1 =>
            /\ Len(NewFrame) = Len(ml)
            /\ \A i \in 1..Len(NewFrame) :
                /\ TakenFrom(NewFrame[i], ml[i])
                /\ SameFileColumns(NewFrame[i], NewFrame[1])]_vars

-----------------------------------------------------------------------------
(* C3 *)

\* C3: an annotation is an ML annotation iff it carries a center frequency, an
\* ASK probability, a PSK probability or a non-empty custom-classifier list, so
\* a file projects to one row per such annotation (one row when there is none)
\* and an annotation with only an empty list gets no row of its own.
C3_EmptyListIsNotMl ==
    [][Projected =>
        LET n == Len(SelectSeq(Annotations(parser[1].metadata), CarriesMlData))
        IN Len(NewFrame) = IF n = 0 THEN 1 ELSE n]_vars

-----------------------------------------------------------------------------
(* C4 *)

SampleSize(datatype) == IF datatype = "cf32_le" THEN 8 ELSE 4

\* C4: in every produced row num_samples is file_size_bytes divided by the
\* datatype's sample size (8 for cf32_le, 4 for ci16_le), truncated.
C4_NumSamplesTruncates ==
    \A row \in ProducedRows :
        /\ row.datatype \in {"cf32_le", "ci16_le"}
        /\ row.num_samples \in Nat
        /\ row.num_samples * SampleSize(row.datatype) <= row.file_size_bytes
        /\ row.file_size_bytes < (row.num_samples + 1) * SampleSize(row.datatype)

\* A cf32_le row of at least one sample whose file size is not a multiple of 8
C4_Witness ==
    \E row \in ProducedRows :
        /\ row.datatype = "cf32_le"
        /\ row.num_samples >= 1
        /\ row.file_size_bytes % 8 # 0

-----------------------------------------------------------------------------
(* C5 *)

\* C5: when the data file is absent at the time to_summary_rows reads its size,
\* whatever the earlier existence check answered, the projection still succeeds
\* and every row it emits has num_samples = 0 and file_size_bytes = 0.
C5_VanishedFileProjectsZero ==
    [][(pc = "rows" /\ ~path_exists(data_files, parser[1].data_file_path))
        => /\ Len(all_rows') = Len(all_rows) + 1
           /\ stderr' = stderr
           /\ \A j \in 1..Len(NewFrame) :
                NewFrame[j].num_samples = 0 /\ NewFrame[j].file_size_bytes = 0]_vars

-----------------------------------------------------------------------------
(* C6 *)

\* The entries of the walk consumed so far that are readable, well-formed
\* metadata files
ParsedEntries ==
    {i \in 1..idx : /\ walk[i].kind = "entry"
                    /\ walk[i].path[2] = "sigmf-meta"
                    /\ walk[i].file.read_ok /\ walk[i].file.json_ok}

Reported(path, kind, detail) ==
    \E k \in 1..Len(stderr) :
        /\ stderr[k].path = path
        /\ stderr[k].err = [kind |-> kind, detail |-> detail]

\* C6: from_string accepts exactly "cf32_le" (8 bytes per sample) and "ci16_le"
\* (4 bytes per sample); every other string, case variants and the empty string
\* included, fails with an unsupported-datatype error that carries the string.
C6_FromStringTwoDatatypes ==
    /\ \A i \in ParsedEntries :
        LET s == walk[i].file.metadata.global.datatype
        IN Reported(walk[i].path, "UnsupportedDatatype", <<s>>)
               <=> s \notin {"cf32_le", "ci16_le"}
    /\ \A k \in 1..Len(stderr) :
        stderr[k].err.kind = "UnsupportedDatatype" =>
            stderr[k].err.detail = <<walk[stderr[k].path[1]].file.metadata.global.datatype>>
    /\ parser # None =>
        LET s == parser[1].metadata.global.datatype
        IN \/ s = "cf32_le" /\ sample_size_bytes(parser[1].data_type) = 8
           \/ s = "ci16_le" /\ sample_size_bytes(parser[1].data_type) = 4

\* A case variant of a supported name was rejected, the error carrying it
C6_Witness ==
    \E i \in ParsedEntries :
        /\ walk[i].file.metadata.global.datatype = "CF32_LE"
        /\ Reported(walk[i].path, "UnsupportedDatatype", <<"CF32_LE">>)

-----------------------------------------------------------------------------
(* C7 *)

\* C7: from_meta_file returns a parser iff the document reads and parses, its
\* datatype is supported and the companion .sigmf-data file exists; otherwise
\* it returns the error of the first failing step in the order read/parse,
\* datatype, companion file, and no parser is built.
C7_AllOrNothing ==
    [][(/\ pc = "walk" /\ idx < Len(walk) /\ idx' = idx + 1
        /\ walk[idx + 1].kind = "entry"
        /\ walk[idx + 1].path[2] = "sigmf-meta")
        => LET entry == walk[idx + 1]
               f == entry.file
               s == f.metadata.global.datatype
               supported == s \in {"cf32_le", "ci16_le"}
               present == data_files[entry.path[1]].exists
               first_failure ==
                   IF ~f.read_ok THEN "io"
                   ELSE IF ~f.json_ok THEN "json"
                   ELSE IF ~supported THEN "UnsupportedDatatype"
                   ELSE "MissingDataFile"
           IN IF f.read_ok /\ f.json_ok /\ supported /\ present
              THEN /\ parser' = Some([metadata |-> f.metadata,
                                      data_type |-> IF s = "cf32_le" THEN "Cf32Le"
                                                    ELSE "Ci16Le",
                                      data_file_path |-> <<entry.path[1], "sigmf-data">>])
                   /\ stderr' = stderr
              ELSE /\ parser' = None
                   /\ Len(stderr') = Len(stderr) + 1
                   /\ stderr'[Len(stderr')].path = entry.path
                   /\ stderr'[Len(stderr')].err.kind = first_failure]_vars

\* A file with an unsupported datatype and no companion file was rejected for
\* its datatype
C7_Witness ==
    \E k \in 1..Len(stderr) :
        /\ stderr[k].err.kind = "UnsupportedDatatype"
        /\ ~data_files[stderr[k].path[1]].exists
        /\ parser = None

-----------------------------------------------------------------------------
(* C8 *)

Dataset == result[1].val[1]

\* C8: no failure on a single entry of the walk (a parse failure, a projection
\* failure, an entry the walk cannot read) aborts the ingestion: once
\* from_directory has returned, every row of every file that parsed and
\* projected is in the Dataset it returned.
C8_EntryFailureNeverAborts ==
    (pc = "done" /\ all_rows # <<>>) =>
        /\ result[1].ok
        /\ \A k \in 1..Len(all_rows) : \A j \in 1..Len(all_rows[k]) :
            \E n \in 1..Len(Dataset) : Dataset[n] = all_rows[k][j]

-----------------------------------------------------------------------------
(* C9 *)

\* C9: from_directory fails iff no discovered file produced a row.
C9_FailsIffNoRows ==
    pc = "done" => (~result[1].ok <=> all_rows = <<>>)

-----------------------------------------------------------------------------
(* C10 *)

RECURSIVE RowsBefore(_)
\* The number of rows in the frames before frame k
RowsBefore(k) == IF k <= 1 THEN 0 ELSE RowsBefore(k - 1) + Len(all_rows[k - 1])

\* The ML annotations of the file at position i of the walk
MlOfEntry(i) ==
    SelectSeq(Annotations(walk[i].file.metadata), LAMBDA a : ~NoMlField(a))

\* C10: the returned Dataset holds the frames of the successful files in
\* discovery order, each frame's rows contiguous and in the file's annotation
\* order, and as many rows as the frames have together.
C10_OrderPreserving ==
    (result # None /\ result[1].ok) =>
        /\ Len(Dataset) = RowsBefore(Len(all_rows) + 1)
        /\ \A k \in 1..Len(all_rows) : \A j \in 1..Len(all_rows[k]) :
            Dataset[RowsBefore(k) + j] = all_rows[k][j]
        /\ \A n, m \in 1..Len(Dataset) :
            n < m => Dataset[n].meta_filename[1] <= Dataset[m].meta_filename[1]
        /\ \A n \in 1..Len(Dataset) :
            LET i == Dataset[n].meta_filename[1]
                first_row == CHOOSE q \in 1..n :
                    /\ Dataset[q].meta_filename[1] = i
                    /\ \A r \in 1..n : Dataset[r].meta_filename[1] = i => q <= r
                ml == MlOfEntry(i)
            IN ml # <<>> => /\ n - first_row + 1 <= Len(ml)
                            /\ TakenFrom(Dataset[n], ml[n - first_row + 1])

\* A Dataset of two multi-row files from a walk in which another file failed
C10_Witness ==
    /\ result # None /\ result[1].ok
    /\ Len(all_rows) = 2
    /\ Len(all_rows[1]) = 2 /\ Len(all_rows[2]) = 2
    /\ Len(Dataset) = 4
    /\ error_count = 1

-----------------------------------------------------------------------------
(* gui_main.rs: apply_filters as a function of the dataset and the filter   *)
(* mapping.  The initial states are the application where line 346 calls    *)
(* apply_filters: a dataset is loaded and the text of a filter box has just *)
(* changed.                                                                 *)

\* The columns of the mapping that carry a text, and the texts
FilterColumns ==
    {"datatype", "gain", "duration_s", "num_samples", "file_size_bytes",
     "sequence_num", "agc"}

FilterTexts(column_name) ==
    CASE column_name = "datatype" -> {"cf32_le", "CF32_LE", "cf32_le ", "cf32"}
      [] column_name = "gain" -> {"5", "2.5", " 5", "TRUE"}
      [] column_name = "duration_s" -> {"2.5", "5", "yes"}
      [] column_name = "num_samples" -> {"5", "-1", "5.0", "+9"}
      [] column_name = "file_size_bytes" -> {"20", "-1", " 5"}
      [] column_name = "sequence_num" -> {"5", "-1", "cf32"}
      [] column_name = "agc" -> {"TRUE", "False", "yes", "5"}

\* The mapping load_dataset builds (lines 176-179): every column, blank
BlankFilters == [col_name \in ColumnNames |-> ""]

RECURSIVE Mappings(_)
\* The mappings with at most n texts
Mappings(n) ==
    IF n = 0 THEN {BlankFilters}
    ELSE {[m EXCEPT ![c] = t] : m \in Mappings(n - 1),
                                t \in {""} \cup UNION {FilterTexts(c) : c \in FilterColumns},
                                c \in FilterColumns}

FilterInit ==
    /\ \E dir \in GuiDirectories :
       \E m \in {x \in Mappings(MaxActive) :
                    \A c \in FilterColumns : x[c] \in {""} \cup FilterTexts(c)} :
       \E stored \in {NoHash, calculate_filter_hash([column_filters |-> BlankFilters])} :
          /\ from_directory(dir).ok
          /\ app = [load_dataset(new(SavedConfig), from_directory(dir)) EXCEPT
                       !.column_filters = m, !.last_filter_hash = stored]
    /\ event = NoEvent
    /\ walk = <<>>
    /\ data_files = <<>>
    /\ pc = "done"
    /\ idx = 0
    /\ parser = None
    /\ exists_seen = FALSE
    /\ all_rows = <<>>
    /\ processed_count = 0
    /\ error_count = 0
    /\ stderr = <<>>
    /\ result = None

\* The call of apply_filters
FilterCall ==
    \E order \in iteration_orders(app.column_filters) :
    \E engine_ok \in BOOLEAN :
       /\ app' = apply_filters(app, order, engine_ok)
       /\ event' = Event("apply_filters", apply_filters_path(app, engine_ok))
       /\ UNCHANGED <<walk, data_files, pc, idx, parser, exists_seen, all_rows,
                      processed_count, error_count, stderr, result>>

FilterNext == FilterCall

FilterSpec == FilterInit /\ [][FilterNext]_vars

-----------------------------------------------------------------------------
(* gui_main.rs: apply_filters called with a mapping that has an entry for a  *)
(* column the dataset does not have.  load_dataset builds the mapping from   *)
(* the columns of the dataset, so the application itself never makes such a *)
(* mapping; these are the states of the function's contract on             *)
(* HashMap<String, String>, in which line 219 takes its else path.          *)

ForeignColumn == "no_such_column"

ForeignTexts == {"", "5", "cf32_le"}

\* The mappings of at most n texts with one more entry, for the foreign column
ForeignMappings(n) ==
    {[k \in ColumnNames \cup {ForeignColumn} |->
         IF k = ForeignColumn THEN t ELSE m[k]] :
        m \in {x \in Mappings(n) :
                 \A c \in FilterColumns : x[c] \in {""} \cup FilterTexts(c)},
        t \in ForeignTexts}

ForeignInit ==
    /\ \E dir \in GuiDirectories :
       \E m \in ForeignMappings(MaxActive - 1) :
       \E stored \in {NoHash, calculate_filter_hash([column_filters |-> BlankFilters])} :
          /\ from_directory(dir).ok
          /\ app = [load_dataset(new(SavedConfig), from_directory(dir)) EXCEPT
                       !.column_filters = m, !.last_filter_hash = stored]
    /\ event = NoEvent
    /\ walk = <<>>
    /\ data_files = <<>>
    /\ pc = "done"
    /\ idx = 0
    /\ parser = None
    /\ exists_seen = FALSE
    /\ all_rows = <<>>
    /\ processed_count = 0
    /\ error_count = 0
    /\ stderr = <<>>
    /\ result = None

ForeignNext == FilterCall

ForeignSpec == ForeignInit /\ [][ForeignNext]_vars

-----------------------------------------------------------------------------
(* Vocabulary of the filter properties *)

\* The table apply_filters read, the table it produced, and the filter mapping
Source == app.dataset[1]

Shown == app.filtered_dataset[1]

Filters == app.column_filters

\* The last call of apply_filters evaluated the filters and collected a table
Collected == event = Event("apply_filters", "collected")

\* The columns with a non-blank text
NonBlank == {c \in DOMAIN Filters : Filters[c] # ""}

\* The rows of a frame at the positions from a to b, as a frame
Part(frame, a, b) == SubSeq(frame, a, b)

\* C11: filtering the concatenation of two row sequences gives the rows of
\* filtering the first followed by the rows of filtering the second: however
\* the loaded table is cut in two, the table apply_filters collects is the
\* filtered first part followed by the filtered second part.
C11_FilterCommutesWithConcat ==
    Collected =>
        \A k \in 0..Len(Source) :
        \A order \in iteration_orders(Filters) :
            Shown = filter_loop(Part(Source, 1, k), Filters, order, 1)
                    \o filter_loop(Part(Source, k + 1, Len(Source)), Filters, order, 1)

\* A table of three rows of which a filter kept two and dropped one
C11_Witness ==
    /\ Collected
    /\ NonBlank # {}
    /\ Len(Source) = 3
    /\ Len(Shown) = 2
    /\ Shown[1] = Source[1]
    /\ Shown[2] = Source[3]

\* C12: filtering is idempotent: for a mapping with at least one text, applying
\* the mapping to the table apply_filters collected gives that table again,
\* the same rows in the same order.
C12_FilterIdempotent ==
    (Collected /\ NonBlank # {}) =>
        \A order \in iteration_orders(Filters) :
            filter_loop(Shown, Filters, order, 1) = Shown

\* A collected table that kept rows and dropped rows
C12_Witness ==
    /\ Collected
    /\ NonBlank # {}
    /\ Shown # <<>>
    /\ Len(Shown) < Len(Source)

\* What a text denotes as a decimal number: the quotient num/den, or nothing
Decimal(text) ==
    CASE text = "5" -> Some([num |-> 5, den |-> 1])
      [] text = "5.0" -> Some([num |-> 5, den |-> 1])
      [] text = "2.5" -> Some([num |-> 5, den |-> 2])
      [] text = "-1" -> Some([num |-> 0 - 1, den |-> 1])
      [] text = "+9" -> Some([num |-> 9, den |-> 1])
      [] text = "20" -> Some([num |-> 20, den |-> 1])
      [] OTHER -> None

\* What a text denotes as a signed integer, or nothing
Integer(text) ==
    CASE text = "5" -> Some(5)
      [] text = "-1" -> Some(0 - 1)
      [] text = "+9" -> Some(9)
      [] text = "20" -> Some(20)
      [] OTHER -> None

\* What a text denotes as a truth value when case is ignored, or nothing
Truth(text) ==
    CASE text \in {"TRUE", "true"} -> Some(TRUE)
      [] text \in {"False", "false"} -> Some(FALSE)
      [] OTHER -> None

FloatColumns == {c \in ColumnNames : dtype(c) = "Float64"}

IntegerColumns == {"num_samples", "file_size_bytes", "sequence_num"}

BooleanColumns == {"agc", "ml_no_sig"}

StringColumns == ColumnNames \ (FloatColumns \cup IntegerColumns \cup BooleanColumns)

\* The text of column c constrains no row
Unconstraining(c) ==
    \/ Filters[c] = ""
    \/ c \in FloatColumns /\ Decimal(Filters[c]) = None
    \/ c \in IntegerColumns /\ Integer(Filters[c]) = None
    \/ c \in BooleanColumns /\ Truth(Filters[c]) = None

\* C13: when every entry of the mapping is blank, or is a text that yields no
\* predicate, the table apply_filters collects is the loaded table: the same
\* rows in the same order.
C13_FilterIdentity ==
    (Collected /\ \A c \in DOMAIN Filters : Unconstraining(c)) => Shown = Source

\* The all-blank mapping was evaluated, and so was a mapping whose texts
\* yield no predicate
C13_Witness ==
    /\ Collected
    /\ Len(Source) = 3
    /\ \A c \in DOMAIN Filters : Unconstraining(c)
    /\ Filters["gain"] = " 5"
    /\ Filters["agc"] = "yes"

\* No other column than c carries a text
OnlyText(c) == NonBlank = {c}

\* The rows of a frame whose value in float column c is at least the quotient n
AtLeastDecimal(frame, c, n) ==
    SelectSeq(frame, LAMBDA row :
        IF c = "duration_s"
        THEN row[c].num * n.den >= n.num * row[c].den
        ELSE row[c] * n.den >= n.num)

\* C14: on a floating-point column, a text that denotes a number n keeps
\* exactly the rows whose value is at least n (gains 1, 5, 9 with "5" keep 5
\* and 9), and a text that denotes no number constrains nothing and raises no
\* error.
C14_FloatAtLeast ==
    \A c \in FloatColumns \cap DOMAIN Filters :
        /\ (Collected /\ Decimal(Filters[c]) # None) =>
               Shown = AtLeastDecimal(Shown, c, Decimal(Filters[c])[1])
        /\ (Collected /\ OnlyText(c)) =>
               /\ Decimal(Filters[c]) # None =>
                      Shown = AtLeastDecimal(Source, c, Decimal(Filters[c])[1])
               /\ Decimal(Filters[c]) = None =>
                      Shown = Source /\ app.error_message = None

\* The gains 1, 5, 9 filtered with "5"
C14_Witness ==
    /\ Collected
    /\ OnlyText("gain")
    /\ Filters["gain"] = "5"
    /\ [i \in DOMAIN Source |-> Source[i].gain] = <<1, 5, 9>>
    /\ [i \in DOMAIN Shown |-> Shown[i].gain] = <<5, 9>>

\* The rows of a frame whose value in integer column c is at least n
AtLeastInteger(frame, c, n) == SelectSeq(frame, LAMBDA row : row[c] >= n)

\* C15: on an integer column, a text that denotes a signed integer n keeps
\* exactly the rows whose value is at least n, so a negative n keeps every
\* row; a text that denotes no signed integer, decimal text such as "5.0"
\* included, constrains nothing.
C15_IntegerAtLeast ==
    \A c \in IntegerColumns \cap DOMAIN Filters :
        /\ (Collected /\ Integer(Filters[c]) # None) =>
               Shown = AtLeastInteger(Shown, c, Integer(Filters[c])[1])
        /\ (Collected /\ OnlyText(c)) =>
               /\ Integer(Filters[c]) # None =>
                      Shown = AtLeastInteger(Source, c, Integer(Filters[c])[1])
               /\ (Integer(Filters[c]) # None /\ Integer(Filters[c])[1] < 0) =>
                      Shown = Source
               /\ Integer(Filters[c]) = None => Shown = Source

\* Sample counts 9, 5, 1 filtered with "5"
C15_Witness ==
    /\ Collected
    /\ OnlyText("num_samples")
    /\ Filters["num_samples"] = "5"
    /\ [i \in DOMAIN Source |-> Source[i].num_samples] = <<9, 5, 1>>
    /\ [i \in DOMAIN Shown |-> Shown[i].num_samples] = <<9, 5>>

\* The rows of a frame whose value in boolean column c is b
WithTruth(frame, c, b) == SelectSeq(frame, LAMBDA row : row[c] = b)

\* C16: on a boolean column, a text equal to "true" when case is ignored keeps
\* exactly the rows whose value is true, a text equal to "false" when case is
\* ignored keeps exactly the rows whose value is false, and any other text
\* constrains nothing.
C16_BooleanMatch ==
    \A c \in BooleanColumns \cap DOMAIN Filters :
        /\ (Collected /\ Truth(Filters[c]) # None) =>
               Shown = WithTruth(Shown, c, Truth(Filters[c])[1])
        /\ (Collected /\ OnlyText(c)) =>
               /\ Truth(Filters[c]) # None =>
                      Shown = WithTruth(Source, c, Truth(Filters[c])[1])
               /\ Truth(Filters[c]) = None => Shown = Source

\* "TRUE" on agc kept the rows with agc and dropped the row without
C16_Witness ==
    /\ Collected
    /\ OnlyText("agc")
    /\ Filters["agc"] = "TRUE"
    /\ Shown # <<>>
    /\ Len(Shown) < Len(Source)
    /\ \A i \in DOMAIN Shown : Shown[i].agc

\* The rows of a frame whose value in string column c is the text
Identical(frame, c, text) == SelectSeq(frame, LAMBDA row : row[c] = text)

\* C17: on a string column, a text keeps exactly the rows whose value is
\* identical to it: case matters, the whole value is compared, and the text
\* is not trimmed.
C17_StringExact ==
    \A c \in (StringColumns \cap DOMAIN Filters) \ {"meta_filename", "data_filename"} :
        /\ (Collected /\ Filters[c] # "") =>
               Shown = Identical(Shown, c, Filters[c])
        /\ (Collected /\ OnlyText(c)) =>
               Shown = Identical(Source, c, Filters[c])

\* "cf32_le" on datatype kept the two cf32_le rows of three
C17_Witness ==
    /\ Collected
    /\ OnlyText("datatype")
    /\ Filters["datatype"] = "cf32_le"
    /\ Len(Source) = 3
    /\ Len(Shown) = 2
    /\ \A i \in DOMAIN Shown : Shown[i].datatype = "cf32_le"

\* A row satisfies the predicate the text of column c stands for
Satisfies(row, c) ==
    IF Unconstraining(c) THEN TRUE
    ELSE IF c \in FloatColumns
    THEN LET n == Decimal(Filters[c])[1]
         IN IF c = "duration_s" THEN row[c].num * n.den >= n.num * row[c].den
            ELSE row[c] * n.den >= n.num
    ELSE IF c \in IntegerColumns THEN row[c] >= Integer(Filters[c])[1]
    ELSE IF c \in BooleanColumns THEN row[c] = Truth(Filters[c])[1]
    ELSE row[c] = Filters[c]

\* C18: the predicates of the columns are combined with AND: the collected
\* table holds exactly the rows of the loaded table that satisfy the predicate
\* of every column, in their order, and it is the same table in whatever
\* order the mapping is iterated.
C18_PredicatesConjoined ==
    Collected =>
        /\ Shown = SelectSeq(Source, LAMBDA row :
                        \A c \in NonBlank \cap ColumnNames : Satisfies(row, c))
        /\ \A order \in iteration_orders(Filters) :
               filter_loop(Source, Filters, order, 1) = Shown

\* Two predicates that each drop another row of three: one row is left
C18_Witness ==
    /\ Collected
    /\ Filters["gain"] = "5"
    /\ Filters["agc"] = "TRUE"
    /\ Len(Source) = 3
    /\ Len(Shown) = 1
    /\ Shown[1] = Source[3]

\* C19: filtering never mutates the source dataset: whatever a frame does
\* (a filter edit, an apply_filters call that collects or fails, Clear
\* Filters, a selection, a column-visibility change), the stored dataset stays
\* as it is, unless the frame is a load_dataset that succeeded.
C19_SourceDatasetKept ==
    [][app'.dataset # app.dataset => event' = Event("load_dataset", "loaded")]_vars

\* A filter that drops rows was evaluated and failed, and the three rows of
\* the dataset are still there
C19_Witness ==
    /\ event = Event("apply_filters", "failed")
    /\ Filters["gain"] = "5"
    /\ app.dataset # None
    /\ [i \in DOMAIN Source |-> Source[i].gain] = <<1, 5, 9>>

\* The last call of apply_filters got past the hash test of line 208
Evaluated == event.handler = "apply_filters" /\ event.path \in {"collected", "failed"}

-----------------------------------------------------------------------------
(* C21 *)

\* The position of the first capture among the positions hits; 0 when none
FirstPosition(hits) ==
    IF hits = {} THEN 0 ELSE CHOOSE i \in hits : \A j \in hits : i <= j

\* C21: the capture columns of every row come from three independent
\* first-match scans of the capture list: center_freq_hz from the first capture
\* with a frequency, capture_datetime from the first with a timestamp, and
\* gain, agc and sequence_num all from the one first capture that has a gain or
\* an AGC flag; a column is 0.0, "", false or 0 when no capture qualifies or
\* the selected capture lacks the field.
C21_CaptureSelection ==
    [][Projected =>
        LET captures == parser[1].metadata.captures
            f == FirstPosition({i \in DOMAIN captures : captures[i].frequency # None})
            t == FirstPosition({i \in DOMAIN captures : captures[i].timestamp # None})
            d == FirstPosition({i \in DOMAIN captures :
                                   captures[i].gain # None \/ captures[i].agc # None})
        IN \A j \in 1..Len(NewFrame) :
            LET row == NewFrame[j]
            IN /\ row.center_freq_hz = (IF f = 0 THEN 0 ELSE captures[f].frequency[1])
               /\ row.capture_datetime = (IF t = 0 THEN "" ELSE captures[t].timestamp[1])
               /\ row.gain = (IF d = 0 \/ captures[d].gain = None
                              THEN 0 ELSE captures[d].gain[1])
               /\ row.agc = (IF d = 0 \/ captures[d].agc = None
                             THEN FALSE ELSE captures[d].agc[1])
               /\ row.sequence_num = (IF d = 0 \/ captures[d].sequence_num = None
                                      THEN 0 ELSE captures[d].sequence_num[1])]_vars

\* A row of a file whose first capture has only the AGC flag and whose second
\* has the frequency, the timestamp, a gain and a sequence number: the three
\* scans chose different captures and the later gain was not used
C21_Witness ==
    \E row \in ProducedRows :
        /\ row.center_freq_hz = 915 /\ row.capture_datetime = "t2"
        /\ row.gain = 0 /\ row.agc = TRUE /\ row.sequence_num = 0

-----------------------------------------------------------------------------
(* C22 *)

\* The probability of the first entry of the annotation's custom-classifier
\* list whose class name is exactly name; 0 without a list or such an entry
FirstNamed(ann, name) ==
    IF ann.custom_classifier_probs = None THEN 0
    ELSE LET list == ann.custom_classifier_probs[1]
             named == {i \in DOMAIN list : list[i].class_name = name}
         IN IF named = {} THEN 0
            ELSE list[CHOOSE i \in named : \A j \in named : i <= j].class_prob

\* The annotation without the custom-classifier entries of other class names
OnlyNamedClasses(ann) ==
    IF ann.custom_classifier_probs = None THEN ann
    ELSE [ann EXCEPT !.custom_classifier_probs =
            Some(SelectSeq(ann.custom_classifier_probs[1],
                           LAMBDA c : c.class_name \in {"wifi", "cell", "radar"}))]

\* The parser's document with every annotation reduced by OnlyNamedClasses
WithOnlyNamedClasses(self) ==
    IF self.metadata.annotations = None THEN self
    ELSE [self EXCEPT !.metadata.annotations =
            Some([i \in DOMAIN self.metadata.annotations[1] |->
                    OnlyNamedClasses(self.metadata.annotations[1][i])])]

\* C22: in every row ml_wifi_prob, ml_cell_prob and ml_radar_prob are the
\* probability of the first entry named exactly "wifi", "cell" and "radar" in
\* the custom-classifier list of the annotation that row was emitted for, never
\* of another annotation; they are 0.0, and the projection still succeeds, when
\* the list or the class is missing; entries of any other class name change no
\* column of any row.
C22_CustomClassColumns ==
    [][Projected =>
        LET ml == SelectSeq(Annotations(parser[1].metadata), LAMBDA a : ~NoMlField(a))
        IN /\ ml = <<>> =>
                /\ NewFrame[1].ml_wifi_prob = 0
                /\ NewFrame[1].ml_cell_prob = 0
                /\ NewFrame[1].ml_radar_prob = 0
           /\ ml # <<>> =>
                /\ Len(NewFrame) = Len(ml)
                /\ \A i \in 1..Len(NewFrame) :
                    /\ NewFrame[i].ml_wifi_prob = FirstNamed(ml[i], "wifi")
                    /\ NewFrame[i].ml_cell_prob = FirstNamed(ml[i], "cell")
                    /\ NewFrame[i].ml_radar_prob = FirstNamed(ml[i], "radar")
           /\ NewFrame = to_summary_rows(WithOnlyNamedClasses(parser[1]), exists_seen,
                             fs_metadata_len(data_files, parser[1].data_file_path)).val[1]]_vars

\* A frame of two rows, each with its own list: the first row has the first of
\* two "wifi" entries and no "cell"; the second has the "cell" entry after a
\* "Cell" one, its own "wifi", and no "radar"
C22_Witness ==
    \E k \in 1..Len(all_rows) :
        /\ Len(all_rows[k]) = 2
        /\ all_rows[k][1].ml_wifi_prob = 72 /\ all_rows[k][1].ml_cell_prob = 0
        /\ all_rows[k][1].ml_radar_prob = 73
        /\ all_rows[k][2].ml_wifi_prob = 83 /\ all_rows[k][2].ml_cell_prob = 82
        /\ all_rows[k][2].ml_radar_prob = 0

-----------------------------------------------------------------------------
(* C23 *)

\* C23: freq_lower_edge_hz and freq_upper_edge_hz of every row are the edges of
\* the first annotation of the file's whole annotation list, ML annotation or
\* not, and not those of the row's own annotation, so all rows of a file carry
\* the same two values; each is 0.0 when the file has no annotation or the
\* first annotation lacks that edge.
C23_EdgesOfFirstAnnotation ==
    [][Projected =>
        LET anns == Annotations(parser[1].metadata)
        IN \A j \in 1..Len(NewFrame) :
            /\ NewFrame[j].freq_lower_edge_hz =
                 (IF anns = <<>> THEN 0 ELSE OrZero(anns[1].freq_lower_edge))
            /\ NewFrame[j].freq_upper_edge_hz =
                 (IF anns = <<>> THEN 0 ELSE OrZero(anns[1].freq_upper_edge))]_vars

\* The row of a file whose first annotation is not an ML annotation and has the
\* edges 21 and 22, and whose second, the only ML annotation, has the lower
\* edge 75: the row carries the edges of the first
C23_Witness ==
    \E k \in 1..Len(all_rows) :
        /\ Len(all_rows[k]) = 1
        /\ all_rows[k][1].ml_wifi_prob = 72
        /\ all_rows[k][1].freq_lower_edge_hz = 21
        /\ all_rows[k][1].freq_upper_edge_hz = 22

-----------------------------------------------------------------------------
(* C24 *)

\* A cell without a value (a null of the frame)
IsNull(value) == ToString(value) = ToString(None)

\* The cell is a value of its column's type.  (A file name is kept as the pair
\* of its stem and extension, duration_s as a quotient.)
WellTyped(column_name, value) ==
    /\ ~IsNull(value)
    /\ IF column_name \in {"meta_filename", "data_filename"}
       THEN Len(value) = 2 /\ value[2] \in STRING
       ELSE IF column_name \in StringColumns THEN value \in STRING
       ELSE IF column_name \in IntegerColumns THEN value \in Nat
       ELSE IF column_name \in BooleanColumns THEN value \in BOOLEAN
       ELSE IF column_name = "duration_s" THEN value \in [num : Int, den : Int]
       ELSE value \in Int

\* The frames that from_directory stacks, and the stacked one it returns
StackedFrames ==
    {all_rows[k] : k \in 1..Len(all_rows)}
    \cup (IF result # None /\ result[1].ok THEN {result[1].val[1]} ELSE {})

\* C24: every row produced from a valid metadata document has the same fixed,
\* ordered set of named, typed columns and no null in any cell (absent source
\* data is the default of the column's type), so the frames that from_directory
\* stacks always agree on the schema.
C24_FixedSchemaNoNull ==
    /\ Cardinality(ColumnNames) = Len(get_column_names)
    /\ \A frame \in StackedFrames : \A j \in 1..Len(frame) :
        /\ DOMAIN frame[j] = ColumnNames
        /\ \A c \in ColumnNames : WellTyped(c, frame[j][c])

\* Rows of two files stacked into one dataset, one of a document without
\* captures, annotations, author, hardware or geolocation
C24_Witness ==
    /\ result # None /\ result[1].ok
    /\ Len(all_rows) >= 2
    /\ \E j \in 1..Len(result[1].val[1]) :
        LET row == result[1].val[1][j]
        IN /\ row.author = "" /\ row.hardware = "" /\ row.geo_type = ""
           /\ row.capture_datetime = "" /\ row.sig_uuid = ""
           /\ row.center_freq_hz = 0 /\ row.agc = FALSE /\ row.sequence_num = 0

-----------------------------------------------------------------------------
(* C25 *)

\* The rows of the loaded table that satisfy the predicate of every column of
\* the current mapping, in their order
FilteredByCurrent ==
    SelectSeq(Source, LAMBDA row : \A c \in NonBlank \cap ColumnNames : Satisfies(row, c))

\* The frame just run called apply_filters, which returned without a filter
\* error: by the shortcut of line 209 or after collecting
Returned ==
    /\ event.handler = "apply_filters"
    /\ event.path \in {"unchanged", "collected"}
    /\ app.dataset # None
    /\ app.error_message = None

\* C25: the change-detection shortcut of apply_filters is safe: after any
\* sequence of loads, filter edits, Clear Filters and Apply Filters, whenever
\* apply_filters has returned with a dataset loaded and no filter error, the
\* filtered dataset is the loaded dataset filtered by the current mapping, also
\* when the call returned early because the hash of the mapping was the stored
\* one.
C25_ShortcutSafe == Returned => Shown = FilteredByCurrent

-----------------------------------------------------------------------------
(* C26 *)

\* The formatted cells of the first min(height, 1000) rows of the current
\* filtered dataset, for the columns visible now
CellsOfCurrentView ==
    LET visible == SelectSeq(get_column_names, LAMBDA c : c \notin app.hidden_columns)
        height == IF Len(Shown) < 1000 THEN Len(Shown) ELSE 1000
    IN [r \in 1..height |->
           [k \in DOMAIN visible |-> format_cell_value(visible[k], Shown[r][visible[k]])]]

\* C26: at the end of every frame, a cache marked valid holds the formatted
\* cells of the first min(height, 1000) rows of the current filtered dataset
\* for the columns visible now: no event (a filter edit in the frame that
\* rebuilds the cache from the frame's earlier snapshot, Clear Filters, a failed
\* filter evaluation, a change of the visible columns) leaves a cache marked
\* valid that shows an older view.
C26_CacheCoherent ==
    app.cache_valid =>
        /\ app.filtered_dataset # None
        /\ app.table_cache = Some(CellsOfCurrentView)

-----------------------------------------------------------------------------
(* C27 *)

\* The selection of the application self is none, or the index of a row of its
\* filtered dataset together with the values of that row
SelectionConsistent(self) ==
    /\ (self.selected_row # None) <=> (self.selected_row_data # None)
    /\ self.selected_row # None =>
        /\ self.filtered_dataset # None
        /\ self.selected_row[1] \in 0..(Len(self.filtered_dataset[1]) - 1)
        /\ \A c \in ColumnNames :
            self.selected_row_data[1][c].val =
                <<self.filtered_dataset[1][self.selected_row[1] + 1][c]>>

\* C27: after any sequence of load, filter edit, Apply Filters, Clear Filters,
\* row-select and clear-selection events, selected_row is Some(i) exactly when
\* selected_row_data is present, i is then a row index of the current filtered
\* dataset and the data are those of its row i; and every frame that replaces
\* the filtered dataset or the loaded dataset ends with no selection.
C27_SelectionConsistent ==
    [][/\ SelectionConsistent(app')
       /\ (app'.filtered_dataset # app.filtered_dataset \/ app'.dataset # app.dataset)
            => (app'.selected_row = None /\ app'.selected_row_data = None)]_vars

-----------------------------------------------------------------------------
(* C28 *)

\* The column names of a frame: those of the schema and of each of its rows
ColumnsOf(frame) == ColumnNames \cup UNION {DOMAIN frame[i] : i \in DOMAIN frame}

\* C28: whenever a dataset is loaded, column_filters has an entry for every
\* column of the filtered dataset, and in the state a successful load_dataset
\* leaves every entry is blank and the filtered dataset is the newly loaded
\* dataset; after any sequence of successful and failed loads, filter edits
\* and Clear Filters.
C28_FilterEntryPerColumn ==
    /\ app.dataset # None =>
        /\ app.filtered_dataset # None
        /\ ColumnsOf(Shown) \subseteq DOMAIN app.column_filters
    /\ event = Event("load_dataset", "loaded") =>
        /\ app.dataset # None
        /\ \A c \in DOMAIN app.column_filters : app.column_filters[c] = ""
        /\ app.filtered_dataset = app.dataset

\* A reload that succeeded after a non-blank filter mapping had been evaluated
C28_Witness ==
    /\ event = Event("load_dataset", "loaded")
    /\ ~app.last_filter_hash.zero
    /\ \E c \in DOMAIN app.last_filter_hash.pairs : app.last_filter_hash.pairs[c] # ""

-----------------------------------------------------------------------------
(* C29 *)

\* C29: when the evaluation of the combined filter fails, no partially
\* filtered table is shown: the frame ends with an error message recorded and
\* the filtered dataset equal to the whole loaded dataset, the loaded dataset
\* is the one the frame started with, and the mapping is still the one the
\* call evaluated.
C29_FailedEvaluationShowsAll ==
    [][event' = Event("apply_filters", "failed") =>
        /\ app'.error_message # None
        /\ app'.error_message[1][1] = "Filter error"
        /\ app'.filtered_dataset = app.dataset
        /\ app'.dataset = app.dataset
        /\ calculate_filter_hash(app') = app'.last_filter_hash]_vars

\* The evaluation of a mapping that drops rows of the loaded table failed, and
\* all three rows are in the filtered dataset
C29_Witness ==
    /\ event = Event("apply_filters", "failed")
    /\ app.dataset # None /\ app.filtered_dataset # None
    /\ Len(Source) = 3
    /\ Len(FilteredByCurrent) < 3
    /\ Shown = Source
    /\ app.error_message # None

=============================================================================
